---- MODULE Spec2Model ----
(***************************************************************************)
(* The POST /api/process handler of the lecture generator, in its three    *)
(* variants:                                                               *)
(*   "assistant"  : server.js 61-216 (file upload, assistant + thread, run *)
(*                  polling, separate speech synthesis)                    *)
(*   "multimodal" : server.js 313-402 (file upload, one Responses call     *)
(*                  returning text and audio, extractResponsePayload)      *)
(*   "responses"  : the Responses + TTS handler (file upload, Responses    *)
(*                  call for the text, separate speech synthesis)          *)
(* Spec follows one request from its arrival to its response, ServerSpec   *)
(* two requests served by one process.  Every await of the handler is one   *)
(* action; the provider, the file system and the timer answer              *)
(* nondeterministically (success or failure).                              *)
(***************************************************************************)
EXTENDS Integers, Sequences, FiniteSets, TLC

\* ------------------------------------------------------------------ bounds
MaxScriptLen == 1
MaxAudioLen == 1
\* How often runs.retrieve reports a run of ServerSpec as unfinished.
MaxPending == 1

\* --------------------------------------------------------------- constants
maxAttempts == 120

Null == "null"

Variants == {"assistant", "multimodal", "responses"}

\* Characters of a script text; " " is whitespace (removed by trim()).
Chars == {" ", "a"}
\* Bytes of an audio body.
Bytes == {0, 1}
\* Base64 digits (their 6-bit values) of an inline audio part.
Sextets == {0, 17}

RECURSIVE SeqsUpTo(_, _)
SeqsUpTo(S, n) ==
    IF n = 0 THEN {<< >>}
    ELSE LET shorter == SeqsUpTo(S, n - 1)
         IN  shorter \cup {Append(s, x) : s \in shorter, x \in S}

Texts == SeqsUpTo(Chars, MaxScriptLen)
AudioBodies == SeqsUpTo(Bytes, MaxAudioLen)
AudioData == SeqsUpTo(Sextets, MaxAudioLen + 1) \ {<< >>}

\* Messages are sequences of fragments; << >> is an error without a message.
ProviderMessages == {<<"provider error">>, << >>}
RunStatuses == {"in_progress", "completed", "failed", "cancelled", "expired"}

\* String.prototype.trim(): leading and trailing whitespace removed.
RECURSIVE TrimLeft(_)
TrimLeft(s) ==
    IF s # << >> /\ Head(s) = " " THEN TrimLeft(Tail(s)) ELSE s

RECURSIVE TrimRight(_)
TrimRight(s) ==
    IF s # << >> /\ s[Len(s)] = " " THEN TrimRight(SubSeq(s, 1, Len(s) - 1)) ELSE s

Trim(s) == TrimRight(TrimLeft(s))

\* Buffer.from(data, 'base64'): four digits give three bytes; a rest of two
\* digits gives one byte, of three digits two bytes, of one digit none.
RECURSIVE Base64Decode(_)
Base64Decode(d) ==
    LET b1 == (d[1] * 4 + d[2] \div 16) % 256
        b2 == ((d[2] % 16) * 16 + d[3] \div 4) % 256
        b3 == ((d[3] % 4) * 64 + d[4]) % 256
    IN  IF Len(d) >= 4 THEN <<b1, b2, b3>> \o Base64Decode(SubSeq(d, 5, Len(d)))
        ELSE IF Len(d) = 3 THEN <<b1, b2>>
        ELSE IF Len(d) = 2 THEN <<b1>>
        ELSE << >>

\* A node of the Responses output tree.  audio is Null or the base64 data;
\* content is the sequence of child nodes.
Node(type, text, audio, content) ==
    [type |-> type, text |-> text, audio |-> audio, content |-> content]

NoAudio == << >>

\* extractResponsePayload's accumulator: script is the text gathered so far,
\* audioBase64 the audio data seen last (NoAudio stands for null).
EmptyPayload == [script |-> << >>, audioBase64 |-> NoAudio]

IsTextNode(node) == node.type \in {"output_text", "text"} /\ node.text # << >>

IsAudioNode(node) == node.type \in {"output_audio", "audio"} /\ node.audio # NoAudio

\* Mutant of Visit: the audio data seen first is kept.
VisitKeepFirstAudio(node, acc) ==
    IF IsTextNode(node) THEN [acc EXCEPT !.script = @ \o node.text]
    ELSE IF IsAudioNode(node) /\ acc.audioBase64 = NoAudio
    THEN [acc EXCEPT !.audioBase64 = node.audio]
    ELSE acc

\* One node's own contribution (the if / else-if chain of recurse).
Visit(node, acc) ==
    IF IsTextNode(node) THEN [acc EXCEPT !.script = @ \o node.text]
    ELSE IF IsAudioNode(node) THEN [acc EXCEPT !.audioBase64 = node.audio]
    ELSE acc

\* recurse over an array (nodes, from index i on) and into each node's content.
RECURSIVE recurse(_, _, _)
recurse(nodes, i, acc) ==
    IF i > Len(nodes) THEN acc
    ELSE LET node == nodes[i]
             own == Visit(node, acc)
             below == recurse(node.content, 1, own)
         IN  recurse(nodes, i + 1, below)

extractResponsePayload(outputs) ==
    LET acc == recurse(outputs, 1, EmptyPayload)
    IN  [script |-> Trim(acc.script), audioBase64 |-> acc.audioBase64]

\* The response.output values the provider returns in the multimodal variant:
\* one message whose content holds a text part and/or an audio part, or nothing.
TextPart(t) == Node("output_text", t, NoAudio, << >>)
AudioPart(d) == Node("output_audio", << >>, d, << >>)
Message(parts) == Node("message", << >>, NoAudio, parts)

Outputs ==
    {<< >>}
    \cup {<<Message(<<TextPart(t)>>)>> : t \in Texts}
    \cup {<<Message(<<AudioPart(d)>>)>> : d \in AudioData}
    \cup {<<Message(<<TextPart(t), AudioPart(d)>>)>> : t \in Texts, d \in AudioData}
    \cup {<<Message(<<TextPart(t1), TextPart(t2), AudioPart(d)>>)>> :
              t1 \in Texts \ {<< >>}, t2 \in Texts \ {<< >>}, d \in AudioData}

\* ------------------------------------------------------------------- state
VARIABLES
    variant,         \* which of the three handlers serves the request
    reqFile,         \* req.file is set (multer stored an upload)
    pc,              \* the handler's position
    tempExists,      \* the temp upload at filePath exists on disk
    unlinkFailed,    \* history: an unlinkSync of cleanupLocal threw
    outputFilename,  \* `${uuidv4()}.mp3`
    outFile,         \* the file at outputPath under downloads/
    uploadedFile,    \* the handle files.create returned, or Null
    uploadedFileId,  \* let uploadedFileId (assistant and multimodal variants)
    assistantId,     \* let assistantId
    threadId,        \* let threadId
    runStatus,       \* runStatus.status
    attempts,        \* let attempts
    script,          \* const script
    buffer,          \* the audio buffer about to be written
    error,           \* the error on its way to a catch block
    primaryError,    \* history: the first error raised by a step
    response,        \* the responses sent on res, in order
    calls,           \* history: how often each call was made
    remote,          \* what exists at the provider
    upstream,        \* history: what the generation and synthesis steps returned
    fileDelPending,  \* a files.del promise nobody awaits is still outstanding
    \* utils/textExtractor.js, extractText(filePath)
    xPath,           \* the filePath argument
    xExt,            \* const ext
    xPc,             \* extractText's position
    xCalls,          \* history: how often each reader or decoder was called
    xLogged,         \* history: the errors console.error was given, in order
    xRaised,         \* history: the error a reader, a decoder or the dispatch raised
    xResult,         \* the promise extractText returned
    \* two requests served by one process (multer and one of the handlers)
    requests,        \* per request: the handler's locals and what it was answered
    uploadsDir,      \* the files under uploads/, by name
    downloadsDir,    \* the files under downloads/, by uuid
    providerFiles,   \* the files at the provider, by id
    providerAssistants, \* the assistants at the provider, by id
    providerThreads, \* the threads at the provider, by id, and the file attached
    \* extractResponsePayload(outputs) called on its own
    pOutputs,        \* the outputs argument
    pPayload,        \* what the call returned
    \* the pages' scripts (unnamed/part_000, unnamed/part_001)
    currentFile,     \* let currentFile
    generateBtn,     \* generateBtn.disabled and its 'hidden' class
    hidden,          \* which of the page's other elements have the 'hidden' class
    flights,         \* the handlers that have started a request, by number
    page,            \* which script runs, and what it finds in the document
    submitBtn        \* submitBtn.disabled (unnamed/part_001)

handlerVars ==
    <<variant, reqFile, pc, tempExists, unlinkFailed, outputFilename, outFile,
      uploadedFile, uploadedFileId, assistantId, threadId, runStatus, attempts,
      script, buffer, error, primaryError, response, calls, remote,
      upstream, fileDelPending>>

extractVars == <<xPath, xExt, xPc, xCalls, xLogged, xRaised, xResult>>

\* What the request handler leaves alone.
serverVars ==
    <<requests, uploadsDir, downloadsDir, providerFiles, providerAssistants, providerThreads>>

\* What the request handler leaves alone.
payloadVars == <<pOutputs, pPayload>>

uiVars == <<currentFile, generateBtn, hidden, flights, page, submitBtn>>

otherVars == <<extractVars, serverVars, payloadVars, uiVars>>

vars == <<handlerVars, otherVars>>

CallNames ==
    {"filesCreate", "assistantsCreate", "threadsCreate", "messagesCreate",
     "runsCreate", "runsRetrieve", "sleep", "messagesList", "responsesCreate",
     "speechCreate", "arrayBuffer", "writeFile", "cleanupLocal", "unlinkSync",
     "filesDelete",
     "assistantsDel", "threadsDel"}

Uuids == {"uuid-1", "uuid-2"}

NoError == [raised |-> FALSE, message |-> << >>]
Raised(msg) == [raised |-> TRUE, message |-> msg]

NoFile == [exists |-> FALSE, complete |-> FALSE, data |-> << >>]
Written(data) == [exists |-> TRUE, complete |-> TRUE, data |-> data]
Partial(data) == [exists |-> TRUE, complete |-> FALSE, data |-> data]

\* What upstream returned: script and audio are "none" (not returned yet),
\* "empty" or "present"; text is the script text as returned, data the audio
\* as returned (the body of the speech response, or the base64 data of the
\* audio part).
NothingReturned == [script |-> "none", audio |-> "none", text |-> << >>, data |-> << >>]
Emptiness(s) == IF s = << >> THEN "empty" ELSE "present"

NoRemote == [file |-> FALSE, assistant |-> FALSE, thread |-> FALSE]

\* The handler's locals before its first statement.
Fresh ==
    /\ unlinkFailed = FALSE
    /\ outputFilename = << >>
    /\ outFile = NoFile
    /\ uploadedFile = Null
    /\ uploadedFileId = Null
    /\ assistantId = Null
    /\ threadId = Null
    /\ runStatus = Null
    /\ attempts = 0
    /\ script = << >>
    /\ buffer = << >>
    /\ error = NoError
    /\ primaryError = NoError
    /\ response = << >>
    /\ calls = [c \in CallNames |-> 0]
    /\ remote = NoRemote
    /\ upstream = NothingReturned
    /\ fileDelPending = FALSE

\* No request is being handled.
NoRequest ==
    /\ variant = "assistant" /\ reqFile = FALSE /\ tempExists = FALSE
    /\ pc = "idle"
    /\ Fresh

DecoderNames ==
    {"readFileSync", "pdf", "extractRawText", "xlsxReadFile", "sheetToTxt", "parseOffice"}

Pending == [state |-> "pending", defined |-> FALSE, text |-> << >>, message |-> << >>]

\* extractText has not been called.
NoExtraction ==
    /\ xPath = << >> /\ xExt = << >> /\ xPc = "idle"
    /\ xCalls = [d \in DecoderNames |-> 0]
    /\ xLogged = << >>
    /\ xRaised = NoError
    /\ xResult = Pending

\* 10 * 1024 * 1024: multer's limits.fileSize.
fileSizeLimit == 10485760

Requests == {1, 2}
TempNames == {"upload-1", "upload-2"}

NoUpload == [exists |-> FALSE, owner |-> 0, size |-> 0]
Stored(r, size) == [exists |-> TRUE, owner |-> r, size |-> size]

\* A request on its way in: nothing stored, no handler started.
Arriving(v) ==
    [variant |-> v, pc |-> "arriving", hasFile |-> FALSE, size |-> 0, path |-> Null,
     outputFilename |-> << >>, stream |-> NoUpload, forwarded |-> [bytes |-> 0, owners |-> {}], streamEnded |-> FALSE,
     uploadedFileId |-> 0, assistantId |-> 0, threadId |-> 0,
     runStatus |-> Null, attempts |-> 0,
     returned |-> [script |-> << >>, audio |-> << >>], script |-> << >>,
     buffer |-> << >>, writeOp |-> "none", error |-> NoError, response |-> << >>,
     cleaned |-> FALSE, wrote |-> FALSE, delIssued |-> {}, delPending |-> FALSE]

\* The process has just started: empty directories, nothing at the provider.
NoTraffic ==
    /\ requests = [r \in Requests |-> Arriving(Null)]
    /\ uploadsDir = [n \in TempNames |-> NoUpload]
    /\ downloadsDir = [u \in Uuids |-> NoFile]
    /\ providerFiles = [i \in Requests |-> "free"]
    /\ providerAssistants = [i \in Requests |-> "free"]
    /\ providerThreads = [i \in Requests |-> [state |-> "free", file |-> 0]]

NotCalled == [called |-> FALSE, script |-> << >>, audioBase64 |-> NoAudio]

\* extractResponsePayload is not being called on its own.
NoPayloadCall == pOutputs = << >> /\ pPayload = NotCalled

MaxRequests == 2

PageElements == {"statusContainer", "resultSection", "fileInfo", "scriptContainer"}
FormElements == {"statusDiv", "resultDiv"}

\* No page is open.
NoPage ==
    /\ currentFile = << >>
    /\ generateBtn = [disabled |-> TRUE, hidden |-> TRUE]
    /\ hidden = [e \in PageElements \cup FormElements |-> TRUE]
    /\ flights = [k \in 1..MaxRequests |-> "none"]
    /\ page = [script |-> "none", parts |-> FALSE, span |-> FALSE, loader |-> FALSE]
    /\ submitBtn = [disabled |-> TRUE]

\* One request arrives at one of the three handlers.
Init ==
    /\ variant \in Variants
    /\ reqFile \in BOOLEAN
    /\ tempExists \in (IF reqFile THEN BOOLEAN ELSE {FALSE})
    /\ pc = "received"
    /\ Fresh
    /\ NoExtraction
    /\ NoTraffic
    /\ NoPayloadCall
    /\ NoPage

\* ----------------------------------------------------------------- helpers
Called(names) == calls' = [c \in CallNames |-> IF c \in names THEN calls[c] + 1 ELSE calls[c]]

\* A step raises an error: it becomes the error under way, and the first one
\* raised is remembered.
Raise(msg) ==
    /\ error' = Raised(msg)
    /\ primaryError' = IF primaryError.raised THEN primaryError ELSE Raised(msg)

\* Mutant of CatchTarget: an error does not leave the try block; the handler
\* goes on with the speech synthesis.
CatchTargetResume(inner) == "speech_create"

\* The catch block an error thrown at the current position lands in: the
\* assistant variant's inner try (lines 98-188) has its own catch.
CatchTarget(inner) == IF inner THEN "inner_catch" ELSE "catch"

\* res.status(code).json(body)
Send(code, body) == response' = Append(response, [status |-> code, body |-> body])

\* Mutant of cleanupLocal: the temp upload is left where it is.
cleanupLocalNoUnlink ==
    /\ Called({"cleanupLocal"})
    /\ tempExists' = tempExists /\ unlinkFailed' = unlinkFailed

\* Mutant of cleanupLocal: unlinkSync is called without asking existsSync, and
\* throws when there is no file.
cleanupLocalNoExistsCheck ==
    /\ Called({"cleanupLocal", "unlinkSync"})
    /\ IF tempExists
       THEN \/ tempExists' = FALSE /\ unlinkFailed' = unlinkFailed
            \/ tempExists' = TRUE /\ unlinkFailed' = TRUE
       ELSE tempExists' = FALSE /\ unlinkFailed' = TRUE

\* cleanupLocal(): existsSync, then unlinkSync, whose error is caught and logged.
cleanupLocal ==
    IF tempExists
    THEN /\ Called({"cleanupLocal", "unlinkSync"})
         /\ \/ tempExists' = FALSE /\ unlinkFailed' = unlinkFailed
            \/ tempExists' = TRUE /\ unlinkFailed' = TRUE
    ELSE /\ Called({"cleanupLocal"})
         /\ tempExists' = tempExists /\ unlinkFailed' = unlinkFailed

\* Deleting a resource at the provider: it succeeds only if the resource is
\* there, and may fail in any case.  TRUE: the call succeeded.
DelOutcomes(exists) == IF exists THEN {TRUE, FALSE} ELSE {FALSE}

InInnerTry == variant = "assistant"

localVars == <<tempExists, unlinkFailed>>
sessionVars == <<assistantId, threadId, runStatus, attempts>>
resultVars == <<script, buffer, outFile>>
errorVars == <<error, primaryError>>

\* ----------------------------------------------------------------- actions
\* Mutant of FileMissing: the guard on req.file is gone.
FileMissingNever == FALSE

\* Line 62: `!req.file`.
FileMissing == ~reqFile

\* Lines 62-85: the guard on req.file, the names, the existsSync check.
Receive ==
    /\ pc = "received"
    /\ IF FileMissing
       THEN /\ Send(400, [error |-> <<"No file uploaded">>])
            /\ pc' = "done"
            /\ UNCHANGED <<outputFilename, errorVars>>
       ELSE /\ \E u \in Uuids : outputFilename' = <<u, ".mp3">>
            /\ IF ~tempExists
               THEN /\ Raise(<<"Uploaded file not found at: ", "filePath">>)
                    /\ pc' = "catch"
               ELSE /\ pc' = "files_create"
                    /\ UNCHANGED errorVars
            /\ UNCHANGED response
    /\ UNCHANGED <<otherVars, upstream, variant, reqFile, localVars, sessionVars, resultVars, uploadedFile,
                   uploadedFileId, calls, remote, fileDelPending>>

\* Lines 88-92: openai.files.create and the assignment of uploadedFileId.
FilesCreate ==
    /\ pc = "files_create"
    /\ Called({"filesCreate"})
    /\ \/ /\ uploadedFile' = "file-1"
          /\ uploadedFileId' = IF variant = "responses" THEN Null ELSE "file-1"
          /\ remote' = [remote EXCEPT !.file = TRUE]
          /\ pc' = IF variant = "assistant" THEN "assistants_create" ELSE "responses_create"
          /\ UNCHANGED errorVars
       \/ /\ \E m \in ProviderMessages : Raise(m)
          /\ pc' = "catch"
          /\ UNCHANGED <<uploadedFile, uploadedFileId, remote>>
    /\ UNCHANGED <<otherVars, upstream, variant, reqFile, localVars, outputFilename, sessionVars, resultVars,
                   response, fileDelPending>>

\* Lines 99-105: openai.beta.assistants.create.
AssistantsCreate ==
    /\ pc = "assistants_create"
    /\ Called({"assistantsCreate"})
    /\ \/ /\ assistantId' = "asst-1"
          /\ remote' = [remote EXCEPT !.assistant = TRUE]
          /\ pc' = "threads_create"
          /\ UNCHANGED errorVars
       \/ /\ \E m \in ProviderMessages : Raise(m)
          /\ pc' = CatchTarget(TRUE)
          /\ UNCHANGED <<assistantId, remote>>
    /\ UNCHANGED <<otherVars, upstream, variant, reqFile, localVars, outputFilename, threadId, runStatus, attempts,
                   resultVars, uploadedFile, uploadedFileId, response, fileDelPending>>

\* Lines 107-108: openai.beta.threads.create.
ThreadsCreate ==
    /\ pc = "threads_create"
    /\ Called({"threadsCreate"})
    /\ \/ /\ threadId' = "thread-1"
          /\ remote' = [remote EXCEPT !.thread = TRUE]
          /\ pc' = "messages_create"
          /\ UNCHANGED errorVars
       \/ /\ \E m \in ProviderMessages : Raise(m)
          /\ pc' = CatchTarget(TRUE)
          /\ UNCHANGED <<threadId, remote>>
    /\ UNCHANGED <<otherVars, upstream, variant, reqFile, localVars, outputFilename, assistantId, runStatus, attempts,
                   resultVars, uploadedFile, uploadedFileId, response, fileDelPending>>

\* Lines 110-119: openai.beta.threads.messages.create.
MessagesCreate ==
    /\ pc = "messages_create"
    /\ Called({"messagesCreate"})
    /\ \/ /\ pc' = "runs_create"
          /\ UNCHANGED errorVars
       \/ /\ \E m \in ProviderMessages : Raise(m)
          /\ pc' = CatchTarget(TRUE)
    /\ UNCHANGED <<otherVars, upstream, variant, reqFile, localVars, outputFilename, sessionVars, resultVars,
                   uploadedFile, uploadedFileId, response, remote, fileDelPending>>

\* Lines 121-123: openai.beta.threads.runs.create.
RunsCreate ==
    /\ pc = "runs_create"
    /\ Called({"runsCreate"})
    /\ \/ /\ pc' = "runs_retrieve"
          /\ UNCHANGED errorVars
       \/ /\ \E m \in ProviderMessages : Raise(m)
          /\ pc' = CatchTarget(TRUE)
    /\ UNCHANGED <<otherVars, upstream, variant, reqFile, localVars, outputFilename, sessionVars, resultVars,
                   uploadedFile, uploadedFileId, response, remote, fileDelPending>>

\* Lines 126-128: the first runs.retrieve, attempts = 0.
RunsRetrieve ==
    /\ pc = "runs_retrieve"
    /\ Called({"runsRetrieve"})
    /\ \/ /\ \E st \in RunStatuses : runStatus' = st
          /\ attempts' = 0
          /\ pc' = "loop"
          /\ UNCHANGED errorVars
       \/ /\ \E m \in ProviderMessages : Raise(m)
          /\ pc' = CatchTarget(TRUE)
          /\ UNCHANGED <<runStatus, attempts>>
    /\ UNCHANGED <<otherVars, upstream, variant, reqFile, localVars, outputFilename, assistantId, threadId,
                   resultVars, uploadedFile, uploadedFileId, response, remote, fileDelPending>>

\* Mutant of LoopContinues: the loop has no bound on its attempts.
LoopContinuesUnbounded(status, n) == status # "completed"

\* Line 130: the while condition.
LoopContinues(status, n) == status # "completed" /\ n < maxAttempts

\* Line 131: the statuses that end the run with a hard error.
IsHardStatus(status) == status \in {"failed", "cancelled", "expired"}

\* Mutant of TimedOut: the test after the loop is gone.
TimedOutNever(n) == FALSE

\* Line 139: the test made after the loop.
TimedOut(n) == n >= maxAttempts

\* Line 132: `Assistant run ${status}: ${last_error?.message || 'Unknown error'}`
RunErrorMessage(status, lastErrorMessage) ==
    <<"Assistant run ", status, ": ">>
        \o (IF lastErrorMessage = << >> THEN <<"Unknown error">> ELSE lastErrorMessage)

TimeoutMessage == <<"Assistant run timed out after 2 minutes">>

\* Lines 130-133 and 139-141: one evaluation of the while condition, with the
\* status test inside the loop and the timeout test after it.
WhileLoop ==
    /\ pc = "loop"
    /\ IF LoopContinues(runStatus, attempts)
       THEN IF IsHardStatus(runStatus)
            THEN /\ \E m \in ProviderMessages : Raise(RunErrorMessage(runStatus, m))
                 /\ pc' = CatchTarget(TRUE)
            ELSE /\ pc' = "sleep"
                 /\ UNCHANGED errorVars
       ELSE IF TimedOut(attempts)
            THEN /\ Raise(TimeoutMessage)
                 /\ pc' = CatchTarget(TRUE)
            ELSE /\ pc' = "messages_list"
                 /\ UNCHANGED errorVars
    /\ UNCHANGED <<otherVars, upstream, variant, reqFile, localVars, outputFilename, sessionVars, resultVars,
                   uploadedFile, uploadedFileId, response, calls, remote, fileDelPending>>

\* Line 134: the one-second wait.
Sleep ==
    /\ pc = "sleep"
    /\ Called({"sleep"})
    /\ pc' = "poll"
    /\ UNCHANGED <<otherVars, upstream, variant, reqFile, localVars, outputFilename, sessionVars, resultVars,
                   uploadedFile, uploadedFileId, errorVars, response, remote, fileDelPending>>

\* Lines 135-136: runs.retrieve inside the loop, then attempts++.
Poll ==
    /\ pc = "poll"
    /\ Called({"runsRetrieve"})
    /\ \/ /\ \E st \in RunStatuses : runStatus' = st
          /\ attempts' = attempts + 1
          /\ pc' = "loop"
          /\ UNCHANGED errorVars
       \/ /\ \E m \in ProviderMessages : Raise(m)
          /\ pc' = CatchTarget(TRUE)
          /\ UNCHANGED <<runStatus, attempts>>
    /\ UNCHANGED <<otherVars, upstream, variant, reqFile, localVars, outputFilename, assistantId, threadId,
                   resultVars, uploadedFile, uploadedFileId, response, remote, fileDelPending>>

\* Mutant of NoScript: the test for an empty script is gone.
NoScriptNever(text) == FALSE

\* Line 146, 115: `!script`.
NoScript(text) == text = << >>

\* Lines 143-148: messages.list, the script read from the first message, and
\* the test for an empty script.  A list without a first message or text part
\* makes the property access throw a TypeError.
MessagesList ==
    /\ pc = "messages_list"
    /\ Called({"messagesList"})
    /\ \/ /\ \E t \in Texts :
                /\ upstream' = [upstream EXCEPT !.script = Emptiness(t), !.text = t]
                /\ IF NoScript(t)
                   THEN /\ Raise(<<"OpenAI did not return a Hebrew script.">>)
                        /\ pc' = CatchTarget(TRUE)
                        /\ UNCHANGED script
                   ELSE /\ script' = t
                        /\ pc' = "cleanup_assistant"
                        /\ UNCHANGED errorVars
       \/ /\ upstream' = [upstream EXCEPT !.script = "empty"]
          /\ Raise(<<"Cannot read properties of undefined">>)
          /\ pc' = CatchTarget(TRUE)
          /\ UNCHANGED script
       \/ /\ \E m \in ProviderMessages : Raise(m)
          /\ pc' = CatchTarget(TRUE)
          /\ UNCHANGED <<script, upstream>>
    /\ UNCHANGED <<otherVars, variant, reqFile, localVars, outputFilename, sessionVars, buffer, outFile,
                   uploadedFile, uploadedFileId, response, remote, fileDelPending>>

\* An awaited deletion of the assistant, its failure caught: lines 151-157 on
\* the success path (next = "cleanup_thread"), 191-195 in the inner catch.
DeleteAssistantAt(here, next) ==
    /\ pc = here
    /\ IF assistantId # Null
       THEN /\ Called({"assistantsDel"})
            /\ \E ok \in DelOutcomes(remote.assistant) :
                  remote' = [remote EXCEPT !.assistant = IF ok THEN FALSE ELSE @]
       ELSE UNCHANGED <<calls, remote>>
    /\ pc' = next
    /\ UNCHANGED <<otherVars, upstream, variant, reqFile, localVars, outputFilename, sessionVars, resultVars,
                   uploadedFile, uploadedFileId, errorVars, response, fileDelPending>>

\* An awaited deletion of the thread, its failure caught: lines 158-164 on the
\* success path, 196-200 in the inner catch.
DeleteThreadAt(here, next) ==
    /\ pc = here
    /\ IF threadId # Null
       THEN /\ Called({"threadsDel"})
            /\ \E ok \in DelOutcomes(remote.thread) :
                  remote' = [remote EXCEPT !.thread = IF ok THEN FALSE ELSE @]
       ELSE UNCHANGED <<calls, remote>>
    /\ pc' = next
    /\ UNCHANGED <<otherVars, upstream, variant, reqFile, localVars, outputFilename, sessionVars, resultVars,
                   uploadedFile, uploadedFileId, errorVars, response, fileDelPending>>

\* Lines 150-157.
CleanupAssistant == DeleteAssistantAt("cleanup_assistant", "cleanup_thread")

\* Lines 158-164.
CleanupThread == DeleteThreadAt("cleanup_thread", "speech_create")

\* Mutant of InnerCatchAssistant: the inner catch leaves the assistant alone.
InnerCatchAssistantSkipped ==
    /\ pc = "inner_catch"
    /\ pc' = "inner_catch_thread"
    /\ UNCHANGED <<otherVars, upstream, variant, reqFile, localVars, outputFilename, sessionVars,
                   resultVars, uploadedFile, uploadedFileId, errorVars, response, calls,
                   remote, fileDelPending>>

\* Lines 189-195: the inner catch, first half.
InnerCatchAssistant == DeleteAssistantAt("inner_catch", "inner_catch_thread")

\* Lines 196-201: the inner catch, second half, and the re-throw to the outer catch.
InnerCatchThread == DeleteThreadAt("inner_catch_thread", "catch")

\* Line 378: `!audioBase64`.
NoAudioData(data) == data = NoAudio

\* Lines 347-380 (multimodal): responses.create, extractResponsePayload, the
\* tests for an empty script and for missing audio, the base64 decoding.
ResponsesCreateMultimodal ==
    /\ pc = "responses_create"
    /\ variant = "multimodal"
    /\ Called({"responsesCreate"})
    /\ \/ /\ \E output \in Outputs :
                LET payload == extractResponsePayload(output)
                IN  /\ upstream' = [script |-> Emptiness(payload.script),
                                     audio |-> Emptiness(payload.audioBase64),
                                     text |-> recurse(output, 1, EmptyPayload).script,
                                     data |-> payload.audioBase64]
                    /\ IF NoScript(payload.script)
                       THEN /\ Raise(<<"OpenAI did not return a Hebrew script.">>)
                            /\ pc' = CatchTarget(FALSE)
                            /\ UNCHANGED <<script, buffer>>
                       ELSE IF NoAudioData(payload.audioBase64)
                       THEN /\ Raise(<<"OpenAI did not return audio data.">>)
                            /\ pc' = CatchTarget(FALSE)
                            /\ UNCHANGED <<script, buffer>>
                       ELSE /\ script' = payload.script
                            /\ buffer' = Base64Decode(payload.audioBase64)
                            /\ pc' = "write_file"
                            /\ UNCHANGED errorVars
       \/ /\ \E m \in ProviderMessages : Raise(m)
          /\ pc' = CatchTarget(FALSE)
          /\ UNCHANGED <<script, buffer, upstream>>
    /\ UNCHANGED <<otherVars, variant, reqFile, localVars, outputFilename, sessionVars, outFile,
                   uploadedFile, uploadedFileId, response, remote, fileDelPending>>

\* Lines 94-117 of the Responses + TTS handler: responses.create, output_text,
\* the test for an empty script.
ResponsesCreateText ==
    /\ pc = "responses_create"
    /\ variant = "responses"
    /\ Called({"responsesCreate"})
    /\ \/ /\ \E t \in Texts :
                /\ upstream' = [upstream EXCEPT !.script = Emptiness(t), !.text = t]
                /\ IF NoScript(t)
                   THEN /\ Raise(<<"OpenAI did not return a script from Responses API.">>)
                        /\ pc' = CatchTarget(FALSE)
                        /\ UNCHANGED script
                   ELSE /\ script' = t
                        /\ pc' = "speech_create"
                        /\ UNCHANGED errorVars
       \/ /\ \E m \in ProviderMessages : Raise(m)
          /\ pc' = CatchTarget(FALSE)
          /\ UNCHANGED <<script, upstream>>
    /\ UNCHANGED <<otherVars, variant, reqFile, localVars, outputFilename, sessionVars, buffer, outFile,
                   uploadedFile, uploadedFileId, response, remote, fileDelPending>>

\* Mutant of SpeechCreate: a failed synthesis is tried a second time.
SpeechCreateRetried ==
    /\ pc = "speech_create"
    /\ Called({"speechCreate"})
    /\ \/ /\ pc' = "array_buffer"
          /\ UNCHANGED errorVars
       \/ /\ calls["speechCreate"] = 0
          /\ pc' = "speech_create"
          /\ UNCHANGED errorVars
       \/ /\ calls["speechCreate"] > 0
          /\ \E m \in ProviderMessages : Raise(m)
          /\ pc' = CatchTarget(InInnerTry)
    /\ UNCHANGED <<otherVars, variant, reqFile, localVars, outputFilename, sessionVars, script, buffer,
                   upstream, outFile, uploadedFile, uploadedFileId, response, remote, fileDelPending>>

\* Lines 167-171: const mp3 = await openai.audio.speech.create(...).  The
\* call resolves with the response, whose body has not been read yet, or
\* rejects.
SpeechCreate ==
    /\ pc = "speech_create"
    /\ Called({"speechCreate"})
    /\ \/ /\ pc' = "array_buffer"
          /\ UNCHANGED errorVars
       \/ /\ \E m \in ProviderMessages : Raise(m)
          /\ pc' = CatchTarget(InInnerTry)
    /\ UNCHANGED <<otherVars, variant, reqFile, localVars, outputFilename, sessionVars, script, buffer,
                   upstream, outFile, uploadedFile, uploadedFileId, response, remote, fileDelPending>>

\* Line 173: const buffer = Buffer.from(await mp3.arrayBuffer()).  The body
\* is taken as it comes, whatever its length; reading it may fail.
ArrayBuffer ==
    /\ pc = "array_buffer"
    /\ Called({"arrayBuffer"})
    /\ \/ /\ \E body \in AudioBodies :
                /\ buffer' = body
                /\ upstream' = [upstream EXCEPT !.audio = Emptiness(body), !.data = body]
          /\ pc' = "write_file"
          /\ UNCHANGED errorVars
       \/ /\ \E m \in ProviderMessages : Raise(m)
          /\ pc' = CatchTarget(InInnerTry)
          /\ UNCHANGED <<buffer, upstream>>
    /\ UNCHANGED <<otherVars, variant, reqFile, localVars, outputFilename, sessionVars, script, outFile,
                   uploadedFile, uploadedFileId, response, remote, fileDelPending>>

\* What a failed fs.promises.writeFile leaves at outputPath: nothing when the
\* open failed, a file with part of the data when a write failed.
FailedWrites(data) == {NoFile} \cup {Partial(SubSeq(data, 1, k)) : k \in 0..Len(data)}

\* Line 174: await fs.promises.writeFile(outputPath, buffer).
WriteFile ==
    /\ pc = "write_file"
    /\ Called({"writeFile"})
    /\ \/ /\ outFile' = Written(buffer)
          /\ pc' = "cleanup_local"
          /\ UNCHANGED errorVars
       \/ /\ \E f \in FailedWrites(buffer) : outFile' = f
          /\ \E m \in ProviderMessages : Raise(m)
          /\ pc' = CatchTarget(InInnerTry)
    /\ UNCHANGED <<otherVars, upstream, variant, reqFile, localVars, outputFilename, sessionVars, script, buffer,
                   uploadedFile, uploadedFileId, response, remote, fileDelPending>>

\* Line 176: cleanupLocal() on the success path.
CleanupLocalSuccess ==
    /\ pc = "cleanup_local"
    /\ cleanupLocal
    /\ pc' = IF variant = "responses" THEN "respond" ELSE "files_delete"
    /\ UNCHANGED <<otherVars, upstream, variant, reqFile, outputFilename, sessionVars, resultVars, uploadedFile,
                   uploadedFileId, errorVars, response, remote, fileDelPending>>

\* The deletion of the uploaded file, at position `here`: awaited in a
\* try/catch in the assistant variant (lines 177-183, 207-213), started and
\* left alone in the multimodal variant (lines 386-388, 397-399).
DeleteUploadedFileAt(here, next) ==
    /\ pc = here
    /\ IF uploadedFileId # Null
       THEN /\ Called({"filesDelete"})
            /\ IF variant = "assistant"
               THEN /\ \E ok \in DelOutcomes(remote.file) :
                          remote' = [remote EXCEPT !.file = IF ok THEN FALSE ELSE @]
                    /\ UNCHANGED fileDelPending
               ELSE /\ fileDelPending' = TRUE
                    /\ UNCHANGED remote
       ELSE UNCHANGED <<calls, remote, fileDelPending>>
    /\ pc' = next
    /\ UNCHANGED <<otherVars, upstream, variant, reqFile, localVars, outputFilename, sessionVars, resultVars,
                   uploadedFile, uploadedFileId, errorVars, response>>

\* Lines 177-183 (assistant), 386-388 (multimodal): success path.
FilesDeleteSuccess == DeleteUploadedFileAt("files_delete", "respond")

\* Lines 207-213 (assistant), 397-399 (multimodal): failure path.
CatchFilesDelete == DeleteUploadedFileAt("catch_files_delete", "respond_error")

\* Mutant of DownloadUrl: the link is the bare file name.
DownloadUrlBareName(name) == name

\* Line 186: the download link.
DownloadUrl(name) == <<"/downloads/">> \o name

\* Mutant of RespondSuccess: something after res.json throws inside the try.
RespondSuccessThenThrow ==
    /\ pc = "respond"
    /\ Send(200, [success |-> TRUE, downloadUrl |-> DownloadUrl(outputFilename),
                  script |-> script])
    /\ Raise(<<"thrown after the response">>)
    /\ pc' = "catch"
    /\ UNCHANGED <<otherVars, upstream, variant, reqFile, localVars, outputFilename, sessionVars,
                   resultVars, uploadedFile, uploadedFileId, calls, remote, fileDelPending>>

\* Lines 186-187: res.json({ success: true, downloadUrl, script }).
RespondSuccess ==
    /\ pc = "respond"
    /\ Send(200, [success |-> TRUE, downloadUrl |-> DownloadUrl(outputFilename),
                  script |-> script])
    /\ pc' = "done"
    /\ UNCHANGED <<otherVars, upstream, variant, reqFile, localVars, outputFilename, sessionVars, resultVars,
                   uploadedFile, uploadedFileId, errorVars, calls, remote, fileDelPending>>

\* Mutant of Catch: a failed unlink is not swallowed but becomes the error
\* the request is answered with.
CatchUnlinkEscalates ==
    /\ pc = "catch"
    /\ cleanupLocal
    /\ error' = IF unlinkFailed' /\ ~unlinkFailed
                THEN Raised(<<"EPERM: operation not permitted, unlink">>)
                ELSE error
    /\ pc' = IF variant = "responses" THEN "respond_error" ELSE "catch_files_delete"
    /\ UNCHANGED <<otherVars, upstream, variant, reqFile, outputFilename, sessionVars, resultVars, uploadedFile,
                   uploadedFileId, primaryError, response, remote, fileDelPending>>

\* Lines 204-206: the outer catch logs the error and runs cleanupLocal().
Catch ==
    /\ pc = "catch"
    /\ cleanupLocal
    /\ pc' = IF variant = "responses" THEN "respond_error" ELSE "catch_files_delete"
    /\ UNCHANGED <<otherVars, upstream, variant, reqFile, outputFilename, sessionVars, resultVars, uploadedFile,
                   uploadedFileId, errorVars, response, remote, fileDelPending>>

\* Mutant of ErrorBody: the fallback for an error without a message is gone.
ErrorBodyNoFallback(err) == [error |-> err.message]

\* Line 214: error.message || 'Internal Server Error'.
ErrorBody(err) ==
    [error |-> IF err.message = << >> THEN <<"Internal Server Error">> ELSE err.message]

\* Line 214: res.status(500).json({ error: ... }).
RespondError ==
    /\ pc = "respond_error"
    /\ Send(500, ErrorBody(error))
    /\ pc' = "done"
    /\ UNCHANGED <<otherVars, upstream, variant, reqFile, localVars, outputFilename, sessionVars, resultVars,
                   uploadedFile, uploadedFileId, errorVars, calls, remote, fileDelPending>>

\* Lines 387, 398: the files.del promise settles some time after it was
\* started; its rejection is dropped by .catch(() => {}).
FilesDelSettle ==
    /\ fileDelPending
    /\ fileDelPending' = FALSE
    /\ \E ok \in DelOutcomes(remote.file) :
          remote' = [remote EXCEPT !.file = IF ok THEN FALSE ELSE @]
    /\ UNCHANGED <<otherVars, upstream, variant, reqFile, pc, localVars, outputFilename, sessionVars, resultVars,
                   uploadedFile, uploadedFileId, errorVars, response, calls>>

Next ==
    \/ Receive
    \/ FilesCreate
    \/ AssistantsCreate
    \/ ThreadsCreate
    \/ MessagesCreate
    \/ RunsCreate
    \/ RunsRetrieve
    \/ WhileLoop
    \/ Sleep
    \/ Poll
    \/ MessagesList
    \/ CleanupAssistant
    \/ CleanupThread
    \/ ResponsesCreateMultimodal
    \/ ResponsesCreateText
    \/ SpeechCreate
    \/ ArrayBuffer
    \/ WriteFile
    \/ CleanupLocalSuccess
    \/ FilesDeleteSuccess
    \/ RespondSuccess
    \/ InnerCatchAssistant
    \/ InnerCatchThread
    \/ Catch
    \/ CatchFilesDelete
    \/ RespondError
    \/ FilesDelSettle

Spec == Init /\ [][Next]_vars

\* Every await settles and every timer fires: the handler always takes its
\* next step.
FairSpec == Spec /\ WF_vars(Next)

\* ------------------------------------------- cleanupLocal called repeatedly
MaxCleanupCalls == 3

\* cleanupLocal() is called once more, at any moment after its first call.
CleanupAgain ==
    /\ calls["cleanupLocal"] >= 1
    /\ calls["cleanupLocal"] < MaxCleanupCalls
    /\ cleanupLocal
    /\ UNCHANGED <<otherVars, upstream, variant, reqFile, pc, outputFilename, sessionVars,
                   resultVars, uploadedFile, uploadedFileId, errorVars, response, remote,
                   fileDelPending>>

\* A request to the Responses + TTS handler.
CleanupInit == Init /\ variant = "responses"

CleanupNext ==
    \/ Receive
    \/ FilesCreate
    \/ ResponsesCreateText
    \/ SpeechCreate
    \/ ArrayBuffer
    \/ WriteFile
    \/ CleanupLocalSuccess
    \/ RespondSuccess
    \/ Catch
    \/ RespondError
    \/ CleanupAgain

CleanupSpec == CleanupInit /\ [][CleanupNext]_vars

\* --------------------------------------- utils/textExtractor.js: extractText
MaxSheets == 2

UpperCase ==
    <<"A", "B", "C", "D", "E", "F", "G", "H", "I", "J", "K", "L", "M",
      "N", "O", "P", "Q", "R", "S", "T", "U", "V", "W", "X", "Y", "Z">>
LowerCase ==
    <<"a", "b", "c", "d", "e", "f", "g", "h", "i", "j", "k", "l", "m",
      "n", "o", "p", "q", "r", "s", "t", "u", "v", "w", "x", "y", "z">>

\* String.prototype.toLowerCase, character by character.
ToLowerCase(str) ==
    [i \in 1..Len(str) |->
        IF \E k \in 1..26 : UpperCase[k] = str[i]
        THEN LowerCase[CHOOSE k \in 1..26 : UpperCase[k] = str[i]]
        ELSE str[i]]

\* The last position of character c in str, 0 when it has none.
LastIndexOf(str, c) ==
    LET at == {i \in 1..Len(str) : str[i] = c}
    IN  IF at = {} THEN 0 ELSE CHOOSE i \in at : \A k \in at : k <= i

\* path.extname skips the path separators the path ends with: the position
\* of the last character that is not a '/', 0 when there is none.
LastNonSeparator(filePath) ==
    LET at == {i \in 1..Len(filePath) : filePath[i] # "/"}
    IN  IF at = {} THEN 0 ELSE CHOOSE i \in at : \A k \in at : k <= i

\* path.extname: from the last '.' of the last path segment to the segment's
\* end, the separators that end the path left aside; empty when the segment
\* has no '.', starts with its only '.', or is '..'.
ExtName(filePath) ==
    LET trimmed == SubSeq(filePath, 1, LastNonSeparator(filePath))
        base == LastIndexOf(trimmed, "/")
        dot  == LastIndexOf(trimmed, ".")
    IN  IF dot <= base + 1 THEN << >>
        ELSE IF dot = base + 2 /\ trimmed[base + 1] = "." /\ dot = Len(trimmed) THEN << >>
        ELSE SubSeq(trimmed, dot, Len(trimmed))

\* The file paths extractText is called with.
FilePaths ==
    {<<"u", "/", "1">> \o e : e \in
        {<<".", "p", "d", "f">>, <<".", "P", "D", "F">>, <<".", "d", "o", "c", "x">>,
         <<".", "D", "o", "c", "x">>, <<".", "x", "l", "s", "x">>, <<".", "x", "l", "s">>,
         <<".", "p", "p", "t", "x">>, <<".", "P", "P", "T">>, <<".", "t", "x", "t">>,
         <<".", "T", "x", "t">>, <<".", "p", "n", "g">>, <<".", "D", "O", "C">>, << >>,
         <<".">>, <<".", "t", "a", "r", ".", "g", "z">>, <<".", "p", "d", "f", ".", "b", "a", "k">>,
         <<".", "b", "a", "k", ".", "t", "x", "t">>}}
    \cup {<<"u", "/", ".", "p", "d", "f">>, <<"u", ".", "t", "x", "t", "/", "1">>,
          <<"u", "/", "1", ".", "t", "x", "t", "/">>, <<"u", "/", "1", ".", "/", "/">>,
          <<"u", "/", ".", ".">>, <<"u", "/", ".", ".", "a">>}

DecoderMessages == {<<"decoder error">>, <<"ENOENT: no such file or directory">>}

Resolved(text) == [state |-> "resolved", defined |-> TRUE, text |-> text, message |-> << >>]
ResolvedUndefined == [state |-> "resolved", defined |-> FALSE, text |-> << >>, message |-> << >>]
Rejected(msg) == [state |-> "rejected", defined |-> FALSE, text |-> << >>, message |-> msg]

XCalled(names) ==
    xCalls' = [d \in DecoderNames |-> IF d \in names THEN xCalls[d] + 1 ELSE xCalls[d]]

\* Mutant of XCatch: the catch block logs the error and returns an empty text.
XCatchSwallowed(msg) ==
    /\ xRaised' = Raised(msg)
    /\ xLogged' = Append(xLogged, msg)
    /\ xResult' = Resolved(<< >>)
    /\ xPc' = "done"

\* Lines 44-47: catch (error) { console.error(..., error); throw error; }
XCatch(msg) ==
    /\ xRaised' = Raised(msg)
    /\ xLogged' = Append(xLogged, msg)
    /\ xResult' = Rejected(msg)
    /\ xPc' = "done"

\* A value is returned from inside the try block.
XReturn(text) ==
    /\ xResult' = Resolved(text)
    /\ xPc' = "done"
    /\ UNCHANGED <<xLogged, xRaised>>

\* Mutant of UnsupportedMessage: the extension is left out of the message.
UnsupportedMessageNoExt(ext) == <<"Unsupported file type: ">>

\* Line 42: `Unsupported file type: ${ext}`.
UnsupportedMessage(ext) == <<"Unsupported file type: ">> \o ext

\* Line 14: const ext = path.extname(filePath).toLowerCase().
ExtractText ==
    /\ xPc = "called"
    /\ xExt' = ToLowerCase(ExtName(xPath))
    /\ xPc' = "dispatch"
    /\ UNCHANGED <<handlerVars, serverVars, payloadVars, uiVars, xPath, xCalls, xLogged, xRaised,
                   xResult>>

\* Lines 17-18: the '.pdf' branch reads the file.
PdfRead ==
    /\ xPc = "dispatch" /\ xExt = <<".", "p", "d", "f">>
    /\ XCalled({"readFileSync"})
    /\ \/ xPc' = "pdf_parse" /\ UNCHANGED <<xLogged, xRaised, xResult>>
       \/ \E m \in DecoderMessages : XCatch(m)
    /\ UNCHANGED <<handlerVars, serverVars, payloadVars, uiVars, xPath, xExt>>

\* Lines 19-20: await pdf(dataBuffer); return data.text.
PdfParse ==
    /\ xPc = "pdf_parse"
    /\ XCalled({"pdf"})
    /\ \/ \E t \in Texts : XReturn(t)
       \/ \E m \in DecoderMessages : XCatch(m)
    /\ UNCHANGED <<handlerVars, serverVars, payloadVars, uiVars, xPath, xExt>>

\* Lines 21-23: await mammoth.extractRawText; return result.value.
Docx ==
    /\ xPc = "dispatch" /\ xExt = <<".", "d", "o", "c", "x">>
    /\ XCalled({"extractRawText"})
    /\ \/ \E t \in Texts : XReturn(t)
       \/ \E m \in DecoderMessages : XCatch(m)
    /\ UNCHANGED <<handlerVars, serverVars, payloadVars, uiVars, xPath, xExt>>

\* The text of the workbook: each sheet's text followed by a line feed.
RECURSIVE SheetsText(_)
SheetsText(sheets) ==
    IF sheets = << >> THEN << >>
    ELSE Head(sheets) \o <<"\n">> \o SheetsText(Tail(sheets))

\* Lines 24-31: xlsx.readFile, then sheet_to_txt for every sheet, all in one
\* turn.  readFile may throw, and so may any of the sheet_to_txt calls, which
\* ends the forEach.
Xlsx ==
    /\ xPc = "dispatch" /\ xExt \in {<<".", "x", "l", "s", "x">>, <<".", "x", "l", "s">>}
    /\ \/ \E sheets \in SeqsUpTo(Texts, MaxSheets) :
            /\ xCalls' = [xCalls EXCEPT !["xlsxReadFile"] = @ + 1,
                                        !["sheetToTxt"] = @ + Len(sheets)]
            /\ XReturn(SheetsText(sheets))
       \/ /\ XCalled({"xlsxReadFile"})
          /\ \E m \in DecoderMessages : XCatch(m)
       \/ \E n \in 1..MaxSheets :
            /\ xCalls' = [xCalls EXCEPT !["xlsxReadFile"] = @ + 1,
                                        !["sheetToTxt"] = @ + n]
            /\ \E m \in DecoderMessages : XCatch(m)
    /\ UNCHANGED <<handlerVars, serverVars, payloadVars, uiVars, xPath, xExt>>

\* Lines 32-38: the promise around officeParser.parseOffice is returned, not
\* awaited, so its rejection passes the catch block by.
Pptx ==
    /\ xPc = "dispatch" /\ xExt \in {<<".", "p", "p", "t", "x">>, <<".", "p", "p", "t">>}
    /\ XCalled({"parseOffice"})
    /\ \/ \E t \in Texts : xResult' = Resolved(t) /\ UNCHANGED xRaised
       \/ xResult' = ResolvedUndefined /\ UNCHANGED xRaised
       \/ \E m \in DecoderMessages : xResult' = Rejected(m) /\ xRaised' = Raised(m)
    /\ xPc' = "done"
    /\ UNCHANGED <<handlerVars, serverVars, payloadVars, uiVars, xPath, xExt, xLogged>>

\* Lines 39-40: return fs.readFileSync(filePath, 'utf-8').
Txt ==
    /\ xPc = "dispatch" /\ xExt = <<".", "t", "x", "t">>
    /\ XCalled({"readFileSync"})
    /\ \/ \E t \in Texts : XReturn(t)
       \/ \E m \in DecoderMessages : XCatch(m)
    /\ UNCHANGED <<handlerVars, serverVars, payloadVars, uiVars, xPath, xExt>>

\* The extensions lines 17-39 test for.
SupportedExts ==
    {<<".", "p", "d", "f">>, <<".", "d", "o", "c", "x">>, <<".", "x", "l", "s", "x">>,
     <<".", "x", "l", "s">>, <<".", "p", "p", "t", "x">>, <<".", "p", "p", "t">>,
     <<".", "t", "x", "t">>}

\* Lines 41-43: the final else throws, and the catch block rethrows.
Unsupported ==
    /\ xPc = "dispatch" /\ xExt \notin SupportedExts
    /\ XCatch(UnsupportedMessage(xExt))
    /\ UNCHANGED <<handlerVars, serverVars, payloadVars, uiVars, xPath, xExt, xCalls>>

\* extractText is called with some file path; no request is being handled.
ExtractInit ==
    /\ NoRequest
    /\ xPath \in FilePaths
    /\ xExt = << >> /\ xPc = "called"
    /\ xCalls = [d \in DecoderNames |-> 0]
    /\ xLogged = << >>
    /\ xRaised = NoError
    /\ xResult = Pending
    /\ NoTraffic
    /\ NoPayloadCall
    /\ NoPage

ExtractNext ==
    \/ ExtractText
    \/ PdfRead
    \/ PdfParse
    \/ Docx
    \/ Xlsx
    \/ Pptx
    \/ Txt
    \/ Unsupported

ExtractSpec == ExtractInit /\ [][ExtractNext]_vars

\* ------------------------------------------------ two requests, one process
\* One request or two are served by one process running one of the three
\* handlers.  Each action is one turn of the event loop: the code from one
\* await to the next runs without interruption, and the turns of two requests
\* interleave.  The names multer generates may coincide, and so may the uuids.

\* The chunk size of fs.createReadStream (lines 89, 341): 64 KiB.
highWaterMark == 65536

\* The sizes of the uploads that arrive: an upload of two chunks, or one too
\* large, when two requests are served; one as long as the limit allows, or
\* one too large, when the request is the only one.
Sizes(alone) ==
    IF alone THEN {fileSizeLimit, fileSizeLimit + 1}
    ELSE {highWaterMark + 1, fileSizeLimit + 1}

\* Mutant of filePath: the path is taken from the other request.
filePathOfOther(r) == requests[3 - r].path

\* Lines 66, 318, part_002 66: const filePath = req.file.path.
filePath(r) == requests[r].path

\* limits: { fileSize: 10 * 1024 * 1024 } as multer applies it.
TooLarge(size) == size > fileSizeLimit

\* Lines 71-79, cleanupLocal(): the directory after it, the unlink having
\* succeeded or failed.
Unlinked(dir, name) ==
    IF name \in DOMAIN dir /\ dir[name].exists
    THEN {[dir EXCEPT ![name] = NoUpload], dir} ELSE {dir}

\* What the provider returns to request r: the text of messages.list and of
\* output_text, the body of speech.create and the output of the multimodal
\* responses.create.  The two requests are given different scripts and
\* different audio, so that content that ends up with the wrong request shows.
ProviderReturns(r) ==
    [texts |-> {<< >>, IF r = 1 THEN <<"a">> ELSE <<" ">>},
     bodies |-> {<<r - 1>>},
     outputs |-> {<< >>,
                  <<Message(<<TextPart(<<"a">>)>>)>>,
                  IF r = 1
                  THEN <<Message(<<TextPart(<<"a">>), AudioPart(<<17, 0>>)>>)>>
                  ELSE <<Message(<<TextPart(<<"a">>), TextPart(<<" ", "a">>),
                                   AudioPart(<<0, 17>>)>>)>>}]

\* The messages of the errors the provider and the file system raise.
ServerErrors == {<<"provider error">>}

\* Lines 204-215, 394-401, part_002 141-145: the outer catch block:
\* cleanupLocal(); the assistant handler awaits files.delete when a file was
\* uploaded, the multimodal handler sends files.del off; the 500.
CatchBlock(r, req, msg) ==
    /\ \E d \in Unlinked(uploadsDir, filePath(r)) : uploadsDir' = d
    /\ LET caught == [req EXCEPT !.error = Raised(msg), !.cleaned = TRUE]
           answered == [caught EXCEPT !.response = Append(@, [status |-> 500,
                                                              body |-> ErrorBody(Raised(msg))]),
                                      !.pc = "done"]
       IN  requests' = [requests EXCEPT ![r] =
                IF req.uploadedFileId = 0 \/ req.variant = "responses" THEN answered
                ELSE IF req.variant = "assistant"
                THEN [caught EXCEPT !.delIssued = @ \cup {"file"}, !.pc = "catch_files_delete"]
                ELSE [answered EXCEPT !.delIssued = @ \cup {"file"}, !.delPending = TRUE]]

\* An error thrown after files.create has resolved.  In the assistant handler
\* it is caught at line 189 first: assistants.del and threads.del are awaited
\* for the ids that are set, then the error is thrown on to the outer catch.
Throw(r, req, msg) ==
    LET failed == [req EXCEPT !.error = Raised(msg)]
    IN  IF req.variant = "assistant" /\ req.assistantId # 0
        THEN /\ requests' = [requests EXCEPT ![r] =
                    [failed EXCEPT !.delIssued = @ \cup {"assistant"},
                                   !.pc = "inner_assistants_del"]]
             /\ UNCHANGED uploadsDir
        ELSE IF req.variant = "assistant" /\ req.threadId # 0
        THEN /\ requests' = [requests EXCEPT ![r] =
                    [failed EXCEPT !.delIssued = @ \cup {"thread"},
                                   !.pc = "inner_threads_del"]]
             /\ UNCHANGED uploadsDir
        ELSE CatchBlock(r, failed, msg)

\* The names a generator of names may give request r: one it has given
\* already, or a new one.  Which string a new name is makes no difference to
\* the code, so the new name is the r-th.
GivenOrNew(r, names, given) ==
    {names[r]} \cup {names[o] : o \in {o \in Requests : names[o] \in given}}

\* multer with the storage and the limit of lines 43-56, upload.single('file'):
\* the request has no file part; or its file part is stored under a generated
\* name before the handler runs; or the part is larger than the limit,
\* nothing is stored and the error goes to Express, which answers with a 500
\* page.  Storing under a name in use overwrites the file in place, so that a
\* read stream open on it (lines 89, 341) delivers the new content from then
\* on.  (With two requests a file under a stream's path is the file the
\* stream was opened on: nobody removes it before the stream's own request
\* does.)
Upload(r) ==
    /\ requests[r].pc = "arriving"
    /\ \/ /\ requests' = [requests EXCEPT ![r] = [@ EXCEPT !.pc = "stored"]]
          /\ UNCHANGED uploadsDir
       \/ \E size \in Sizes(\A o \in Requests \ {r} : requests[o].pc = "absent") :
            IF TooLarge(size)
            THEN /\ requests' = [requests EXCEPT ![r] =
                        [@ EXCEPT !.pc = "done", !.size = size,
                                  !.response = <<[status |-> 500,
                                                  body |-> [html |-> <<"MulterError: File too large">>]]>>]]
                 /\ UNCHANGED uploadsDir
            ELSE \E name \in GivenOrNew(r, <<"upload-1", "upload-2">>,
                                          {requests[o].path : o \in Requests}) :
                    /\ uploadsDir' = [uploadsDir EXCEPT ![name] = Stored(r, size)]
                    /\ requests' = [o \in Requests |->
                            IF o = r
                            THEN [requests[r] EXCEPT !.pc = "stored", !.hasFile = TRUE,
                                                     !.size = size, !.path = name]
                            ELSE IF requests[o].pc = "files_create" /\ filePath(o) = name
                                    /\ uploadsDir[name].exists
                            THEN [requests[o] EXCEPT !.stream = Stored(r, size)]
                            ELSE requests[o]]
    /\ UNCHANGED <<handlerVars, extractVars, payloadVars, uiVars, downloadsDir, providerFiles,
                   providerAssistants, providerThreads>>

\* Lines 61-89, 313-341, part_002 61-88: the handler up to its first await;
\* the read stream given to files.create is made in this turn, on the file at
\* filePath.
Start(r) ==
    /\ requests[r].pc = "stored"
    /\ IF ~requests[r].hasFile
       THEN /\ requests' = [requests EXCEPT ![r] =
                    [@ EXCEPT !.pc = "done",
                              !.response = Append(@, [status |-> 400,
                                                      body |-> [error |-> <<"No file uploaded">>]])]]
            /\ UNCHANGED uploadsDir
       ELSE \E u \in GivenOrNew(r, <<"uuid-1", "uuid-2">>,
                                 {requests[o].outputFilename[1] :
                                    o \in {o \in Requests : requests[o].outputFilename # << >>}}) :
                LET named == [requests[r] EXCEPT !.outputFilename = <<u, ".mp3">>]
                    file == IF filePath(r) \in DOMAIN uploadsDir THEN uploadsDir[filePath(r)]
                            ELSE NoUpload
                IN  IF ~file.exists
                    THEN CatchBlock(r, named, <<"Uploaded file not found at: ", "filePath">>)
                    ELSE /\ requests' = [requests EXCEPT ![r] =
                                [named EXCEPT !.pc = "files_create", !.stream = file]]
                         /\ UNCHANGED uploadsDir
    /\ UNCHANGED <<handlerVars, extractVars, payloadVars, uiVars, downloadsDir, providerFiles,
                   providerAssistants, providerThreads>>

\* Lines 88-91, 340-343, part_002 87-90, while files.create is pending: the
\* stream made on filePath is read, one chunk of at most highWaterMark bytes
\* in a turn, from the content the open file has in that turn, whether or not
\* the file is still under its name; the read that finds no more bytes ends
\* the stream.
StreamRead(r) ==
    /\ requests[r].pc = "files_create"
    /\ ~requests[r].streamEnded
    /\ LET sent == requests[r].forwarded.bytes
           file == requests[r].stream
       IN  requests' = [requests EXCEPT ![r] =
                IF sent < file.size
                THEN [@ EXCEPT !.forwarded =
                            [bytes |-> IF sent + highWaterMark < file.size
                                       THEN sent + highWaterMark ELSE file.size,
                             owners |-> @.owners \cup {file.owner}]]
                ELSE [@ EXCEPT !.streamEnded = TRUE]]
    /\ UNCHANGED <<handlerVars, extractVars, payloadVars, uiVars, uploadsDir, downloadsDir,
                   providerFiles, providerAssistants, providerThreads>>

\* Lines 88-99, 340-347, part_002 87-94: files.create has resolved, the stream
\* having been read to its end, and the next call is made; or it has
\* rejected.  The provider gives the file an id it has not given out; which
\* id makes no difference to the code, and it is named after the request.
FilesCreateDone(r) ==
    /\ requests[r].pc = "files_create"
    /\ \/ /\ requests[r].streamEnded
          /\ LET id == r
             IN  /\ providerFiles' = [providerFiles EXCEPT ![id] = "stored"]
                 /\ requests' = [requests EXCEPT ![r] =
                        [@ EXCEPT !.uploadedFileId = id,
                                  !.pc = IF requests[r].variant = "assistant"
                                         THEN "assistants_create" ELSE "responses_create"]]
          /\ UNCHANGED uploadsDir
       \/ /\ \E m \in ServerErrors : CatchBlock(r, requests[r], m)
          /\ UNCHANGED providerFiles
    /\ UNCHANGED <<handlerVars, extractVars, payloadVars, uiVars, downloadsDir,
                   providerAssistants, providerThreads>>

\* Lines 99-126: assistants.create, threads.create, threads.messages.create or
\* threads.runs.create has resolved, and the next call is made; or it has
\* rejected.  Lines 134-135: the second of waiting is over, and runs.retrieve
\* is called.  The provider gives the assistant and the thread ids it has
\* not given out; which ids makes no difference to the code, and they are
\* named after the request.
SessionCallDone(r) ==
    LET q == requests[r]
    IN  /\ q.pc \in {"assistants_create", "threads_create", "messages_create", "runs_create",
                    "sleep"}
        /\ \/ /\ UNCHANGED uploadsDir
              /\ CASE q.pc = "assistants_create" ->
                        LET id == r
                        IN  /\ providerAssistants' = [providerAssistants EXCEPT ![id] = "stored"]
                            /\ requests' = [requests EXCEPT ![r] =
                                    [q EXCEPT !.assistantId = id, !.pc = "threads_create"]]
                            /\ UNCHANGED providerThreads
                   [] q.pc = "threads_create" ->
                        LET id == r
                        IN  /\ providerThreads' = [providerThreads EXCEPT ![id] =
                                    [state |-> "stored", file |-> 0]]
                            /\ requests' = [requests EXCEPT ![r] =
                                    [q EXCEPT !.threadId = id, !.pc = "messages_create"]]
                            /\ UNCHANGED providerAssistants
                   [] q.pc = "messages_create" ->
                        /\ providerThreads' = [providerThreads EXCEPT ![q.threadId] =
                                [@ EXCEPT !.file = q.uploadedFileId]]
                        /\ requests' = [requests EXCEPT ![r] = [q EXCEPT !.pc = "runs_create"]]
                        /\ UNCHANGED providerAssistants
                   [] q.pc = "runs_create" ->
                        /\ requests' = [requests EXCEPT ![r] = [q EXCEPT !.pc = "runs_retrieve"]]
                        /\ UNCHANGED <<providerAssistants, providerThreads>>
                   [] q.pc = "sleep" ->
                        /\ requests' = [requests EXCEPT ![r] = [q EXCEPT !.pc = "poll"]]
                        /\ UNCHANGED <<providerAssistants, providerThreads>>
           \/ /\ q.pc # "sleep"
              /\ \E m \in ServerErrors : Throw(r, q, m)
              /\ UNCHANGED <<providerAssistants, providerThreads>>
        /\ UNCHANGED <<handlerVars, extractVars, payloadVars, uiVars, downloadsDir, providerFiles>>

\* Lines 126-143: runs.retrieve has resolved, the first one (attempts = 0) or
\* one of the loop (attempts++), and the while condition is evaluated: the
\* handler throws on a hard status, sleeps, throws on the timeout or calls
\* messages.list; or runs.retrieve has rejected.  A run is reported
\* unfinished at most MaxPending times and, of the hard statuses, as failed.
\* The counter is not read after the loop, and is kept while the loop runs.
RunsRetrieveDone(r) ==
    LET q == requests[r]
        n == IF q.pc = "poll" THEN q.attempts + 1 ELSE 0
    IN  /\ q.pc \in {"runs_retrieve", "poll"}
        /\ \/ \E st \in RunStatuses \ {"cancelled", "expired"} :
                /\ st = "in_progress" => n < MaxPending
                /\ LET got == [q EXCEPT !.runStatus = st]
                   IN  IF LoopContinues(st, n)
                       THEN IF IsHardStatus(st)
                            THEN \E m \in ServerErrors :
                                    Throw(r, got, RunErrorMessage(st, m))
                            ELSE /\ requests' = [requests EXCEPT ![r] =
                                        [got EXCEPT !.attempts = n, !.pc = "sleep"]]
                                 /\ UNCHANGED uploadsDir
                       ELSE IF TimedOut(n)
                            THEN Throw(r, got, TimeoutMessage)
                            ELSE /\ requests' = [requests EXCEPT ![r] =
                                        [got EXCEPT !.pc = "messages_list"]]
                                 /\ UNCHANGED uploadsDir
           \/ \E m \in ServerErrors : Throw(r, q, m)
        /\ UNCHANGED <<handlerVars, extractVars, payloadVars, uiVars, downloadsDir, providerFiles,
                       providerAssistants, providerThreads>>

\* Lines 143-153: messages.list has resolved, the script is read and tested
\* and assistants.del is called; or messages.list has rejected.
MessagesListDone(r) ==
    LET q == requests[r]
    IN  /\ q.pc = "messages_list"
        /\ \/ \E text \in ProviderReturns(r).texts :
                LET got == [q EXCEPT !.returned.script = text]
                IN  IF NoScript(text)
                    THEN Throw(r, got, <<"OpenAI did not return a Hebrew script.">>)
                    ELSE /\ requests' = [requests EXCEPT ![r] =
                                [got EXCEPT !.script = text,
                                            !.delIssued = @ \cup {"assistant"},
                                            !.pc = "assistants_del"]]
                         /\ UNCHANGED uploadsDir
           \/ \E m \in ServerErrors : Throw(r, q, m)
        /\ UNCHANGED <<handlerVars, extractVars, payloadVars, uiVars, downloadsDir, providerFiles,
                       providerAssistants, providerThreads>>

\* Lines 151-171 and 191-201: assistants.del or threads.del has settled, in
\* the try block or in its catch block; a rejection is logged or ignored.
\* After assistants.del comes threads.del; after threads.del speech.create
\* (line 167) or, in the catch block, the throw to the outer catch.
SessionDelDone(r) ==
    LET q == requests[r]
        ofAssistant == q.pc \in {"assistants_del", "inner_assistants_del"}
        inCatch == q.pc \in {"inner_assistants_del", "inner_threads_del"}
    IN  /\ q.pc \in {"assistants_del", "inner_assistants_del", "threads_del", "inner_threads_del"}
        /\ IF ofAssistant
           THEN /\ \E ok \in DelOutcomes(providerAssistants[q.assistantId] = "stored") :
                        providerAssistants' =
                            IF ok THEN [providerAssistants EXCEPT ![q.assistantId] = "deleted"]
                            ELSE providerAssistants
                /\ UNCHANGED providerThreads
           ELSE /\ \E ok \in DelOutcomes(providerThreads[q.threadId].state = "stored") :
                        providerThreads' =
                            IF ok THEN [providerThreads EXCEPT ![q.threadId].state = "deleted"]
                            ELSE providerThreads
                /\ UNCHANGED providerAssistants
        /\ IF ofAssistant /\ q.threadId # 0
           THEN /\ requests' = [requests EXCEPT ![r] =
                        [q EXCEPT !.delIssued = @ \cup {"thread"},
                                  !.pc = IF inCatch THEN "inner_threads_del" ELSE "threads_del"]]
                /\ UNCHANGED uploadsDir
           ELSE IF inCatch
           THEN CatchBlock(r, q, q.error.message)
           ELSE /\ requests' = [requests EXCEPT ![r] = [q EXCEPT !.pc = "speech_create"]]
                /\ UNCHANGED uploadsDir
        /\ UNCHANGED <<handlerVars, extractVars, payloadVars, uiVars, downloadsDir, providerFiles>>

\* Lines 347-383, part_002 94-120: responses.create has resolved or rejected.
\* The multimodal handler takes the payload apart, checks it, decodes the
\* audio and hands it to fs.promises.writeFile; the Responses + TTS handler
\* reads output_text, checks it and calls speech.create.
ResponsesCreateDone(r) ==
    LET q == requests[r]
    IN  /\ q.pc = "responses_create"
        /\ \/ /\ q.variant = "multimodal"
              /\ \E out \in ProviderReturns(r).outputs :
                    LET payload == extractResponsePayload(out)
                        got == [q EXCEPT !.returned = [script |-> payload.script,
                                                       audio |-> payload.audioBase64]]
                    IN  IF NoScript(payload.script)
                        THEN Throw(r, got, <<"OpenAI did not return a Hebrew script.">>)
                        ELSE IF NoAudioData(payload.audioBase64)
                        THEN Throw(r, got, <<"OpenAI did not return audio data.">>)
                        ELSE /\ requests' = [requests EXCEPT ![r] =
                                    [got EXCEPT !.script = payload.script,
                                                !.buffer = Base64Decode(payload.audioBase64),
                                                !.pc = "write_file"]]
                             /\ UNCHANGED uploadsDir
           \/ /\ q.variant = "responses"
              /\ \E text \in ProviderReturns(r).texts :
                    LET got == [q EXCEPT !.returned.script = text]
                    IN  IF NoScript(text)
                        THEN Throw(r, got, <<"OpenAI did not return a script from Responses API.">>)
                        ELSE /\ requests' = [requests EXCEPT ![r] =
                                    [got EXCEPT !.script = text, !.pc = "speech_create"]]
                             /\ UNCHANGED uploadsDir
           \/ \E m \in ServerErrors : Throw(r, q, m)
        /\ UNCHANGED <<handlerVars, extractVars, payloadVars, uiVars, downloadsDir, providerFiles,
                       providerAssistants, providerThreads>>

\* Lines 167-174, part_002 120-127: speech.create has resolved and
\* mp3.arrayBuffer() is called; or arrayBuffer() has resolved and the buffer
\* is handed to fs.promises.writeFile; or the call has rejected.
SpeechDone(r) ==
    LET q == requests[r]
    IN  /\ q.pc \in {"speech_create", "array_buffer"}
        /\ \/ /\ q.pc = "speech_create"
              /\ requests' = [requests EXCEPT ![r] = [q EXCEPT !.pc = "array_buffer"]]
              /\ UNCHANGED uploadsDir
           \/ /\ q.pc = "array_buffer"
              /\ \E body \in ProviderReturns(r).bodies :
                    requests' = [requests EXCEPT ![r] =
                        [q EXCEPT !.returned.audio = body, !.buffer = body, !.pc = "write_file"]]
              /\ UNCHANGED uploadsDir
           \/ \E m \in ServerErrors : Throw(r, q, m)
        /\ UNCHANGED <<handlerVars, extractVars, payloadVars, uiVars, downloadsDir, providerFiles,
                       providerAssistants, providerThreads>>

\* Bytes written from position 0 on over what the file holds.
Overlay(data, old) == data \o SubSeq(old, Len(data) + 1, Len(old))

\* Lines 174, 383, part_002 127, while the handler waits:
\* fs.promises.writeFile opens the file at outputPath, which creates it or
\* empties it, and in a later turn writes the buffer into the open file, over
\* whatever another writer of the same file has put there.
WriteFileStep(r) ==
    LET q == requests[r]
        u == q.outputFilename[1]
    IN  /\ q.pc = "write_file" /\ q.writeOp \in {"none", "opened"}
        /\ downloadsDir' = [downloadsDir EXCEPT ![u] =
                IF q.writeOp = "none" THEN Partial(<< >>)
                ELSE [@ EXCEPT !.exists = TRUE, !.data = Overlay(q.buffer, @)]]
        /\ requests' = [requests EXCEPT ![r] =
                [q EXCEPT !.writeOp = IF q.writeOp = "none" THEN "opened" ELSE "written"]]
        /\ UNCHANGED <<handlerVars, extractVars, payloadVars, uiVars, uploadsDir, providerFiles,
                       providerAssistants, providerThreads>>

\* Lines 174-187, 383-392, part_002 127-139: writeFile has resolved, the file
\* written and closed: cleanupLocal(); the assistant handler awaits
\* files.delete, the multimodal handler sends files.del off; the 200.  Or
\* writeFile has rejected: the open failed, or the write failed with part of
\* the buffer in the file.
WriteFileDone(r) ==
    LET q == requests[r]
        u == q.outputFilename[1]
        cleaned == [q EXCEPT !.wrote = TRUE, !.cleaned = TRUE]
        answered == [cleaned EXCEPT !.response = Append(@, [status |-> 200,
                            body |-> [success |-> TRUE,
                                      downloadUrl |-> DownloadUrl(q.outputFilename),
                                      script |-> q.script]]),
                                    !.pc = "done"]
    IN  /\ q.pc = "write_file"
        /\ \/ /\ q.writeOp = "written"
              /\ downloadsDir' = [downloadsDir EXCEPT ![u] = [@ EXCEPT !.complete = TRUE]]
              /\ \E d \in Unlinked(uploadsDir, filePath(r)) : uploadsDir' = d
              /\ requests' = [requests EXCEPT ![r] =
                    IF q.uploadedFileId = 0 \/ q.variant = "responses" THEN answered
                    ELSE IF q.variant = "assistant"
                    THEN [cleaned EXCEPT !.delIssued = @ \cup {"file"}, !.pc = "files_delete"]
                    ELSE [answered EXCEPT !.delIssued = @ \cup {"file"}, !.delPending = TRUE]]
           \/ /\ q.writeOp = "none"
              /\ UNCHANGED downloadsDir
              /\ \E m \in ServerErrors : Throw(r, q, m)
           \/ /\ q.writeOp = "opened"
              /\ \E k \in 0..Len(q.buffer) :
                    downloadsDir' = [downloadsDir EXCEPT ![u] =
                        [@ EXCEPT !.data = Overlay(SubSeq(q.buffer, 1, k), @)]]
              /\ \E m \in ServerErrors : Throw(r, q, m)
        /\ UNCHANGED <<handlerVars, extractVars, payloadVars, uiVars, providerFiles,
                       providerAssistants, providerThreads>>

\* Lines 177-187 and 207-214: the files.delete the assistant handler awaits
\* has settled, its rejection logged, and the response is sent.  Lines 387
\* and 398: the files.del of the multimodal handler, which nobody awaits, has
\* settled, its rejection swallowed.
FilesDelSettled(r) ==
    LET q == requests[r]
        id == q.uploadedFileId
    IN  /\ q.pc \in {"files_delete", "catch_files_delete"} \/ q.delPending
        /\ \E ok \in DelOutcomes(providerFiles[id] = "stored") :
                providerFiles' = IF ok THEN [providerFiles EXCEPT ![id] = "deleted"]
                                 ELSE providerFiles
        /\ requests' = [requests EXCEPT ![r] =
                IF q.delPending THEN [q EXCEPT !.delPending = FALSE]
                ELSE [q EXCEPT !.response = Append(@,
                            IF q.pc = "files_delete"
                            THEN [status |-> 200,
                                  body |-> [success |-> TRUE,
                                            downloadUrl |-> DownloadUrl(q.outputFilename),
                                            script |-> q.script]]
                            ELSE [status |-> 500, body |-> ErrorBody(q.error)]),
                          !.pc = "done"]]
        /\ UNCHANGED <<handlerVars, extractVars, payloadVars, uiVars, uploadsDir, downloadsDir,
                       providerAssistants, providerThreads>>

\* The process has started with one of the three handlers, and one request
\* or two are on their way in.
ServerInit ==
    /\ NoRequest
    /\ NoExtraction
    /\ NoPayloadCall
    /\ NoPage
    /\ \E v \in Variants, n \in Requests :
            requests = [r \in Requests |->
                            IF r <= n THEN Arriving(v) ELSE [Arriving(v) EXCEPT !.pc = "absent"]]
    /\ uploadsDir = [n \in TempNames |-> NoUpload]
    /\ downloadsDir = [u \in Uuids |-> NoFile]
    /\ providerFiles = [i \in Requests |-> "free"]
    /\ providerAssistants = [i \in Requests |-> "free"]
    /\ providerThreads = [i \in Requests |-> [state |-> "free", file |-> 0]]

ServerNext ==
    \/ \E r \in Requests : Upload(r)
    \/ \E r \in Requests : Start(r)
    \/ \E r \in Requests : StreamRead(r)
    \/ \E r \in Requests : FilesCreateDone(r)
    \/ \E r \in Requests : SessionCallDone(r)
    \/ \E r \in Requests : RunsRetrieveDone(r)
    \/ \E r \in Requests : MessagesListDone(r)
    \/ \E r \in Requests : SessionDelDone(r)
    \/ \E r \in Requests : ResponsesCreateDone(r)
    \/ \E r \in Requests : SpeechDone(r)
    \/ \E r \in Requests : WriteFileStep(r)
    \/ \E r \in Requests : WriteFileDone(r)
    \/ \E r \in Requests : FilesDelSettled(r)

ServerSpec == ServerInit /\ [][ServerNext]_vars

\* --------------------------------------- extractResponsePayload on its own
\* Nodes without children: text and audio parts of either type name, with and
\* without their data, a text part that also carries audio data, and a node
\* of another type that carries a text.
Leaves ==
    {Node(ty, tx, NoAudio, << >>) : ty \in {"output_text", "text"}, tx \in {<<"a">>, <<" ">>, << >>}}
    \cup {Node(ty, << >>, d, << >>) : ty \in {"output_audio", "audio"}, d \in {<<17>>, NoAudio}}
    \cup {Node("output_text", << >>, <<0>>, << >>), Node("refusal", <<"a">>, <<0>>, << >>)}

\* Nodes with children: a message, a text part and an audio part, each with
\* two leaves as content.
Containers ==
    {Node(h[1], h[2], h[3], <<l1, l2>>) :
        h \in {<<"message", << >>, NoAudio>>, <<"text", <<"b">>, NoAudio>>,
               <<"audio", << >>, <<34>>>>},
        l1 \in Leaves, l2 \in Leaves}

\* The outputs extractResponsePayload is called with: none, one leaf, or a
\* container and a leaf in either order.
ResponseTrees ==
    {<< >>}
    \cup {<<l>> : l \in Leaves}
    \cup {<<c, l>> : c \in Containers, l \in Leaves}
    \cup {<<l, c>> : c \in Containers, l \in Leaves}

\* Lines 285-310: the call and what it returns.
ExtractPayload ==
    /\ ~pPayload.called
    /\ LET got == extractResponsePayload(pOutputs)
       IN  pPayload' = [called |-> TRUE, script |-> got.script, audioBase64 |-> got.audioBase64]
    /\ UNCHANGED <<handlerVars, extractVars, serverVars, uiVars, pOutputs>>

\* extractResponsePayload is about to be called with some outputs.
PayloadInit ==
    /\ NoRequest
    /\ NoExtraction
    /\ NoTraffic
    /\ NoPage
    /\ pOutputs \in ResponseTrees
    /\ pPayload = NotCalled

PayloadNext == ExtractPayload

PayloadSpec == PayloadInit /\ [][PayloadNext]_vars

\* ------------------------- the pages (unnamed/part_000, unnamed/part_001)
\* part_000 holds two scripts for the same page, lines 1-163 ("english") and
\* 165-354 ("hebrew"); part_001 ("form") is the script of a page with a
\* form.  The documents they run in are not part of the source: what a script
\* looks up in its handlers may be missing, and the lookup then returns null
\* and the statement that uses it throws.  Elements looked up by id when the
\* script starts (part_000 2-15, 188-201) are taken to be there.
\* What the script finds in the document: `parts` the children of dropZone
\* that handleFileSelect and removeFileBtn query (lines 60-63, 76-79, 246-248,
\* 261-263), `span` the span in generateBtn (line 334), `loader` the element
\* of class loader (lines 306, 313).
Documents ==
    [script : {"english"}, parts : BOOLEAN, span : {FALSE}, loader : {FALSE}]
    \cup [script : {"hebrew"}, parts : BOOLEAN, span : BOOLEAN, loader : BOOLEAN]
    \cup [script : {"form"}, parts : {FALSE}, span : {FALSE}, loader : {FALSE}]

\* The names of the files the user drops or picks.
UiFiles ==
    {<<"a", ".", "p", "d", "f">>, <<"a", ".", "P", "D", "F">>, <<"p", "p", "t", "x">>,
     <<"a", ".", "t", "x", "t">>, <<"a", ".", "p", "d", "f", ".", "e", "x", "e">>}

\* Lines 48, 234: const validTypes.
validTypes ==
    {<<".", "p", "d", "f">>, <<".", "d", "o", "c", "x">>, <<".", "p", "p", "t", "x">>,
     <<".", "x", "l", "s", "x">>, <<".", "x", "l", "s">>, <<".", "p", "p", "t">>}

\* Lines 49, 235: '.' + file.name.split('.').pop().toLowerCase().
FileExt(name) ==
    <<".">> \o ToLowerCase(SubSeq(name, LastIndexOf(name, ".") + 1, Len(name)))

\* Lines 32-67, 218-252: a drop or a change of the file input, handleFileSelect.
\* currentFile is set at line 56 (242); the queries on dropZone follow, and
\* the two last statements run only when none of them threw.
HandleFileSelect ==
    /\ page.script \in {"english", "hebrew"}
    /\ \E file \in UiFiles :
          IF FileExt(file) \notin validTypes
          THEN UNCHANGED <<currentFile, hidden, generateBtn>>
          ELSE /\ currentFile' = file
               /\ IF page.parts
                  THEN /\ hidden' = [hidden EXCEPT !["fileInfo"] = FALSE]
                       /\ generateBtn' = [generateBtn EXCEPT !.disabled = FALSE]
                  ELSE UNCHANGED <<hidden, generateBtn>>
    /\ UNCHANGED <<handlerVars, extractVars, serverVars, payloadVars, flights, page,
                   submitBtn>>

\* Lines 69-81, 254-265: a click on removeFileBtn.  The button is disabled in
\* the last statement, after the queries on dropZone.
RemoveFile ==
    /\ page.script \in {"english", "hebrew"}
    /\ currentFile' = << >>
    /\ hidden' = [hidden EXCEPT !["fileInfo"] = TRUE]
    /\ generateBtn' = IF page.parts THEN [generateBtn EXCEPT !.disabled = TRUE]
                      ELSE generateBtn
    /\ UNCHANGED <<handlerVars, extractVars, serverVars, payloadVars, flights, page,
                   submitBtn>>

\* Lines 156-162, 340-353: a click on toggleScriptBtn; the class is toggled in
\* the first statement.
ToggleScript ==
    /\ page.script \in {"english", "hebrew"}
    /\ hidden' = [hidden EXCEPT !["scriptContainer"] = ~@]
    /\ UNCHANGED <<handlerVars, extractVars, serverVars, payloadVars, currentFile, generateBtn,
                   flights, page, submitBtn>>

\* part_001, lines 4 and 10: the file the user has put into fileInput, or
\* taken out of it; the script has no listener for it.
ChooseFile ==
    /\ page.script = "form"
    /\ \E file \in UiFiles \cup {<< >>} : currentFile' = file
    /\ UNCHANGED <<handlerVars, extractVars, serverVars, payloadVars, generateBtn, hidden,
                   flights, page, submitBtn>>

\* The number the next request gets.
NextFlight ==
    CHOOSE k \in 1..MaxRequests :
        flights[k] = "none" /\ \A j \in 1..(k - 1) : flights[j] # "none"

\* Lines 85-104, 269-288: a click on generateBtn, which the browser delivers
\* only to a button that is shown and enabled; the handler up to await fetch.
ClickGenerate ==
    /\ page.script \in {"english", "hebrew"}
    /\ ~generateBtn.disabled /\ ~generateBtn.hidden
    /\ \E k \in 1..MaxRequests : flights[k] = "none"
    /\ IF currentFile = << >>
       THEN UNCHANGED <<generateBtn, hidden, flights>>
       ELSE /\ generateBtn' = [disabled |-> TRUE, hidden |-> TRUE]
            /\ hidden' = [hidden EXCEPT !["statusContainer"] = FALSE, !["resultSection"] = TRUE]
            /\ flights' = [flights EXCEPT ![NextFlight] = "fetching"]
    /\ UNCHANGED <<handlerVars, extractVars, serverVars, payloadVars, currentFile, page,
                   submitBtn>>

\* part_001, lines 1-25: a submit event of uploadForm; the listener up to
\* await fetch.  It tests the file and nothing else: a submit event that
\* arrives while a request is pending starts another.
Submit ==
    /\ page.script = "form"
    /\ \E k \in 1..MaxRequests : flights[k] = "none"
    /\ IF currentFile = << >>
       THEN UNCHANGED <<submitBtn, hidden, flights>>
       ELSE /\ submitBtn' = [disabled |-> TRUE]
            /\ hidden' = [hidden EXCEPT !["statusDiv"] = FALSE, !["resultDiv"] = TRUE]
            /\ flights' = [flights EXCEPT ![NextFlight] = "fetching"]
    /\ UNCHANGED <<handlerVars, extractVars, serverVars, payloadVars, currentFile, page,
                   generateBtn>>

\* Lines 118-129, 302-315, part_001 40-47: the catch block, entered with the
\* button and the classes as the try block left them.  The english script
\* sets its timer; the hebrew script queries the loader first (line 306) and
\* sets no timer when that throws; part_001 shows the status and, in its
\* finally, enables submitBtn.
CatchOfClick(k, btn, classes) ==
    /\ flights' = [flights EXCEPT ![k] =
            IF page.script = "english" \/ (page.script = "hebrew" /\ page.loader)
            THEN "timer" ELSE "done"]
    /\ generateBtn' = btn
    /\ submitBtn' = IF page.script = "form" THEN [disabled |-> FALSE] ELSE submitBtn
    /\ hidden' = IF page.script = "form" THEN [classes EXCEPT !["statusDiv"] = FALSE]
                 ELSE classes

\* Lines 101-106, 285-290, part_001 22-27: fetch settles: a response that is
\* ok, one that is not, or a rejection.
FetchSettles(k) ==
    /\ flights[k] = "fetching"
    /\ \/ /\ flights' = [flights EXCEPT ![k] = "reading_data"]
          /\ UNCHANGED <<generateBtn, hidden, submitBtn>>
       \/ /\ flights' = [flights EXCEPT ![k] = "reading_error"]
          /\ UNCHANGED <<generateBtn, hidden, submitBtn>>
       \/ CatchOfClick(k, generateBtn, hidden)
    /\ UNCHANGED <<handlerVars, extractVars, serverVars, payloadVars, currentFile, page>>

\* Lines 107-108, 291-292, part_001 27-31: the body of a response that is not
\* ok is read, or not, and an error thrown.
ReadError(k) ==
    /\ flights[k] = "reading_error"
    /\ CatchOfClick(k, generateBtn, hidden)
    /\ UNCHANGED <<handlerVars, extractVars, serverVars, payloadVars, currentFile, page>>

\* Lines 112-116 and showResult (133-152), 296-300 and 319-336, part_001
\* 27-39: reading the body of an ok response fails; or it gives null, or an
\* object.  part_000 hides the status (115) and shows the result (134) before
\* it reads data.downloadUrl (137), which throws on null; the hebrew script
\* then shows the button (333) before it queries its span (334).  part_001
\* reads data.downloadUrl first (34).
ReadData(k) ==
    /\ flights[k] = "reading_data"
    /\ LET shown == [hidden EXCEPT !["statusContainer"] = TRUE, !["resultSection"] = FALSE]
       IN  \/ CatchOfClick(k, generateBtn, hidden)
           \/ \E data \in {"null", "object"} :
                IF page.script = "form"
                THEN IF data = "null" THEN CatchOfClick(k, generateBtn, hidden)
                     ELSE /\ hidden' = [hidden EXCEPT !["statusDiv"] = TRUE,
                                                      !["resultDiv"] = FALSE]
                          /\ submitBtn' = [disabled |-> FALSE]
                          /\ flights' = [flights EXCEPT ![k] = "done"]
                          /\ UNCHANGED generateBtn
                ELSE IF data = "null" THEN CatchOfClick(k, generateBtn, shown)
                ELSE IF page.script = "hebrew" /\ ~page.span
                THEN CatchOfClick(k, [generateBtn EXCEPT !.hidden = FALSE], shown)
                ELSE /\ hidden' = shown
                     /\ generateBtn' = [disabled |-> FALSE, hidden |-> FALSE]
                     /\ flights' = [flights EXCEPT ![k] = "done"]
                     /\ UNCHANGED submitBtn
    /\ UNCHANGED <<handlerVars, extractVars, serverVars, payloadVars, currentFile, page>>

\* Lines 123-129, 308-315: the timer of the catch block fires.
TimerFires(k) ==
    /\ flights[k] = "timer"
    /\ generateBtn' = [disabled |-> FALSE, hidden |-> FALSE]
    /\ hidden' = [hidden EXCEPT !["statusContainer"] = TRUE]
    /\ flights' = [flights EXCEPT ![k] = "done"]
    /\ UNCHANGED <<handlerVars, extractVars, serverVars, payloadVars, currentFile, page,
                   submitBtn>>

\* A script has started in some document: no file (lines 17, 203), no
\* request.  Which classes the document gives the script's elements is open,
\* and so is whether submitBtn starts enabled.  generateBtn starts disabled,
\* the state removeFileBtn restores (lines 80, 264).
PageInit ==
    /\ NoRequest
    /\ NoExtraction
    /\ NoTraffic
    /\ NoPayloadCall
    /\ page \in Documents
    /\ currentFile = << >>
    /\ generateBtn \in [disabled : {TRUE}, hidden : BOOLEAN]
    /\ page.script = "form" => generateBtn.hidden
    /\ submitBtn \in [disabled : BOOLEAN]
    /\ page.script # "form" => submitBtn.disabled
    /\ hidden \in [PageElements \cup FormElements -> BOOLEAN]
    /\ \A e \in IF page.script = "form" THEN PageElements ELSE FormElements : hidden[e]
    /\ flights = [k \in 1..MaxRequests |-> "none"]

PageNext ==
    \/ HandleFileSelect
    \/ RemoveFile
    \/ ToggleScript
    \/ ChooseFile
    \/ ClickGenerate
    \/ Submit
    \/ \E k \in 1..MaxRequests : FetchSettles(k)
    \/ \E k \in 1..MaxRequests : ReadError(k)
    \/ \E k \in 1..MaxRequests : ReadData(k)
    \/ \E k \in 1..MaxRequests : TimerFires(k)

PageSpec == PageInit /\ [][PageNext]_vars


\* ------------------------------------------------------------------ claims
Responded == response # << >>
Status == response[Len(response)].status
Body == response[Len(response)].body
\* The handler is about to send its response, or has sent it.
AtResponse == pc \in {"respond", "respond_error", "done"}
NoCalls == \A c \in CallNames : calls[c] = 0

\* C1: a request without a file is answered 400 with an `error` field and
\* nothing else happens: no call of any kind (no provider call, no write, no
\* cleanup), no file under downloads/, no error path, and the handler is over.
C1_NoFileIs400 ==
    (~reqFile /\ pc # "received") =>
        /\ pc = "done"
        /\ Len(response) = 1
        /\ Status = 400
        /\ DOMAIN Body = {"error"}
        /\ Body.error # << >>
        /\ NoCalls
        /\ outFile = NoFile
        /\ remote = NoRemote
        /\ ~fileDelPending
        /\ ~primaryError.raised

C1_Witness == ~reqFile /\ pc = "done" /\ Responded

\* C2: for a request with a file, cleanupLocal has run by the time the response
\* is sent, on the success path and on every failure path, and unless its
\* unlink failed the temp upload is gone.
C2_LocalCleanupBeforeResponse ==
    (reqFile /\ AtResponse) =>
        /\ calls["cleanupLocal"] >= 1
        /\ (~unlinkFailed => ~tempExists)

C2_Witness ==
    /\ reqFile /\ Responded /\ Status = 500
    /\ calls["speechCreate"] = 1 /\ primaryError.raised
    /\ calls["unlinkSync"] = 1 /\ ~unlinkFailed /\ ~tempExists

\* C3 (as claimed): once files.create has returned a handle, its deletion has
\* been issued by the time the response is sent, in every variant; without a
\* handle no deletion is issued.
C3_RemoteFileDeletionIssued ==
    /\ (AtResponse /\ uploadedFile # Null) => calls["filesDelete"] >= 1
    /\ (uploadedFile = Null) => calls["filesDelete"] = 0

\* C4 (as claimed): when the 200 is sent, in the assistant and the multimodal
\* variant, cleanupLocal has run and the deletion of the file handle has been
\* issued and has settled.
C4_CleanupSettledBefore200 ==
    (variant \in {"assistant", "multimodal"} /\ Responded /\ Status = 200) =>
        /\ calls["cleanupLocal"] >= 1
        /\ calls["filesDelete"] >= 1
        /\ ~fileDelPending

\* C5: in the assistant variant, by the time the response is sent every session
\* resource that was created (assistant, thread) has had its deletion attempted
\* at least once, and a resource that was never created is never deleted.
C5_SessionDeleted ==
    (variant = "assistant") =>
        /\ (AtResponse /\ assistantId # Null) => calls["assistantsDel"] >= 1
        /\ (AtResponse /\ threadId # Null) => calls["threadsDel"] >= 1
        /\ (assistantId = Null) => calls["assistantsDel"] = 0
        /\ (threadId = Null) => calls["threadsDel"] = 0

C5_Witness ==
    /\ variant = "assistant" /\ Responded /\ Status = 500
    /\ assistantId # Null /\ threadId = Null
    /\ calls["threadsCreate"] = 1
    /\ calls["assistantsDel"] = 1 /\ calls["threadsDel"] = 0

\* C6: a request gets exactly one response: never two, the handler is over
\* exactly when one was sent, a handler that is not over can take its next
\* step, and the response is either the 200 success body or an error body.
C6_ExactlyOneResponse ==
    /\ Len(response) <= 1
    /\ (pc = "done") <=> (Len(response) = 1)
    /\ (pc # "done") => ENABLED (Next /\ pc' # pc)
    /\ Responded =>
          \/ /\ Status = 200
             /\ DOMAIN Body = {"success", "downloadUrl", "script"}
             /\ Body.success = TRUE
          \/ /\ Status \in {400, 500}
             /\ DOMAIN Body = {"error"}

C6_Witness ==
    /\ variant = "assistant" /\ attempts >= 1
    /\ pc = "done" /\ Len(response) = 1 /\ Status = 200

\* C7: for a request with a file, a failed step always ends in a 500 whose
\* body carries the message of the first error raised ('Internal Server Error'
\* when it has none); a 500 is sent only after a failed step, a 400 never, and
\* a 200 never after a failed step.
C7_FailureIs500 ==
    (reqFile /\ Responded) =>
        /\ Status \in {200, 500}
        /\ primaryError.raised =>
              /\ Status = 500
              /\ Body = [error |-> IF primaryError.message = << >>
                                   THEN <<"Internal Server Error">>
                                   ELSE primaryError.message]
        /\ (Status = 500) => primaryError.raised

C7_Witness ==
    /\ reqFile /\ Responded /\ Status = 500
    /\ primaryError.raised /\ primaryError.message = << >>
    /\ unlinkFailed
    /\ Body.error = <<"Internal Server Error">>

\* C8 (as claimed): when upstream returns an empty or missing script, speech
\* synthesis is never called, no audio file is written, the response is a 500
\* and the temp upload is gone when the response is sent.
C8_EmptyScriptTempRemoved ==
    (upstream.script = "empty") =>
        /\ calls["speechCreate"] = 0
        /\ calls["writeFile"] = 0
        /\ outFile = NoFile
        /\ Responded => (Status = 500 /\ ~tempExists)

\* C8 (amended): when upstream returns an empty or missing script, speech
\* synthesis is never called, no audio file is written, the response is a 500
\* and cleanupLocal has run when the response is sent, so that the temp upload
\* is gone unless its unlink failed.
C8_EmptyScriptCleanedUp ==
    (upstream.script = "empty") =>
        /\ calls["speechCreate"] = 0
        /\ calls["writeFile"] = 0
        /\ outFile = NoFile
        /\ Responded =>
              /\ Status = 500
              /\ calls["cleanupLocal"] >= 1
              /\ (~unlinkFailed => ~tempExists)

C8_Witness ==
    /\ variant = "assistant" /\ upstream.script = "empty"
    /\ calls["messagesList"] = 1
    /\ Responded /\ Status = 500 /\ ~tempExists

\* C9 (as claimed): when upstream returns empty audio (no audio part, or a
\* zero-length body from the speech endpoint), nothing is written under
\* downloads/ and the response is a 500, in every variant.
C9_EmptyAudioRejected ==
    (upstream.audio = "empty") =>
        /\ calls["writeFile"] = 0
        /\ outFile = NoFile
        /\ Responded => Status = 500

\* C10 (as claimed): a 200 means exactly one audio file was written for the
\* request and is still there; a 500 means no audio file of the request
\* exists under downloads/.
C10_OneArtifactOrNone ==
    Responded =>
        /\ (Status = 200) =>
              /\ calls["writeFile"] = 1
              /\ outFile = Written(buffer)
        /\ (Status = 500) => ~outFile.exists

\* C11 (as claimed): when no step fails and script and audio are non-empty,
\* the response is 200 with `script` equal to the script text the generator
\* returned, `downloadUrl` equal to /downloads/<generated name>.mp3, and the
\* file of that name holds exactly the bytes the synthesizer returned.
HappyPath ==
    /\ reqFile /\ Responded /\ ~primaryError.raised
    /\ upstream.script = "present" /\ upstream.audio = "present"

ReturnedBytes ==
    IF variant = "multimodal" THEN Base64Decode(upstream.data) ELSE upstream.data

C11_HappyPathVerbatim ==
    HappyPath =>
        /\ Status = 200
        /\ Body.script = upstream.text
        /\ \E u \in Uuids : /\ outputFilename = <<u, ".mp3">>
                            /\ Body.downloadUrl = <<"/downloads/", u, ".mp3">>
        /\ outFile = Written(ReturnedBytes)

\* C11 (amended): as claimed, except that in the multimodal variant `script`
\* is the returned text with leading and trailing whitespace removed.
C11_HappyPath ==
    HappyPath =>
        /\ Status = 200
        /\ Body.script = IF variant = "multimodal" THEN Trim(upstream.text) ELSE upstream.text
        /\ \E u \in Uuids : /\ outputFilename = <<u, ".mp3">>
                            /\ Body.downloadUrl = <<"/downloads/", u, ".mp3">>
        /\ outFile = Written(ReturnedBytes)

C11_Witness ==
    /\ HappyPath /\ Status = 200 /\ variant = "multimodal"
    /\ upstream.text = <<" ", "a">> /\ Body.script = <<"a">>
    /\ outFile.data # << >>

\* C12: in the assistant variant, when every retrieve up to the last allowed
\* one (the first and maxAttempts more) found the run still in progress, the
\* handler raises the timeout error, whose message differs from every
\* 'Assistant run <status>' message, reads no messages, and answers 500.
HardErrorMessages ==
    {RunErrorMessage(st, m) : st \in {"failed", "cancelled", "expired"}, m \in ProviderMessages}

C12_TimeoutError ==
    (variant = "assistant" /\ runStatus = "in_progress" /\ attempts >= maxAttempts
        /\ pc # "loop") =>
        /\ primaryError = Raised(TimeoutMessage)
        /\ TimeoutMessage \notin HardErrorMessages
        /\ calls["runsRetrieve"] = maxAttempts + 1
        /\ calls["messagesList"] = 0
        /\ Responded => (Status = 500 /\ Body = [error |-> TimeoutMessage])

C12_Witness ==
    /\ variant = "assistant" /\ runStatus = "in_progress" /\ attempts = maxAttempts
    /\ Responded /\ Status = 500 /\ Body.error = TimeoutMessage

\* C13 (as claimed): in the assistant variant, once a retrieve (the first, or
\* any poll up to and including the last allowed one) has returned 'failed',
\* 'cancelled' or 'expired' and the loop has looked at it, the error raised is
\* 'Assistant run <status>: ...', never the timeout error, and the response
\* is a 500.
C13_HardStatusIsHardError ==
    (variant = "assistant" /\ IsHardStatus(runStatus) /\ pc # "loop") =>
        /\ primaryError.raised
        /\ primaryError.message \in {RunErrorMessage(runStatus, m) : m \in ProviderMessages}
        /\ primaryError.message # TimeoutMessage
        /\ Responded => Status = 500

\* C14: a failure during cleanup (the temp file's unlink, or the deletion of
\* the uploaded file, the assistant or the thread) never changes the outcome:
\* a request whose primary work succeeded is still answered 200 with its
\* script and download URL, and a request that failed is still answered 500
\* with the message of its primary error.
CleanupFailed ==
    \/ unlinkFailed
    \/ calls["filesDelete"] >= 1 /\ ~fileDelPending /\ remote.file
    \/ calls["assistantsDel"] >= 1 /\ remote.assistant
    \/ calls["threadsDel"] >= 1 /\ remote.thread

C14_CleanupFailureKeepsOutcome ==
    (reqFile /\ Responded /\ CleanupFailed) =>
        IF primaryError.raised
        THEN /\ Status = 500
             /\ Body = [error |-> IF primaryError.message = << >>
                                  THEN <<"Internal Server Error">>
                                  ELSE primaryError.message]
        ELSE /\ Status = 200
             /\ Body = [success |-> TRUE,
                        downloadUrl |-> <<"/downloads/">> \o outputFilename,
                        script |-> script]

C14_Witness ==
    /\ variant = "assistant" /\ Responded /\ Status = 500
    /\ unlinkFailed /\ tempExists
    /\ calls["filesDelete"] = 1 /\ remote.file
    /\ calls["assistantsDel"] >= 1 /\ remote.assistant
    /\ primaryError.message = <<"provider error">> /\ Body.error = <<"provider error">>

\* C16: no generation or synthesis call is retried: within one request the
\* upload, the assistant, thread, message and run creation, the Responses
\* call, the reading of the messages, the speech synthesis and the writing of
\* the audio file are each issued at most once; the run-status retrieve of
\* the polling loop is the one that is repeated.
OneShotCalls ==
    {"filesCreate", "assistantsCreate", "threadsCreate", "messagesCreate", "runsCreate",
     "messagesList", "responsesCreate", "speechCreate",
     "arrayBuffer", "writeFile"}

C16_NoRetry ==
    /\ \A c \in OneShotCalls : calls[c] <= 1
    /\ variant # "assistant" => calls["runsRetrieve"] = 0

C16_Witness ==
    /\ Responded /\ Status = 500 /\ variant = "assistant"
    /\ calls["runsRetrieve"] = 3
    /\ calls["speechCreate"] = 1 /\ buffer = << >> /\ calls["writeFile"] = 0

\* C17: extractText called with a path whose extension is not one of the
\* supported ones rejects with 'Unsupported file type: <ext>', <ext> being the
\* extension in lower case, and neither reads the file nor calls a decoder.
C17_UnsupportedRejected ==
    (xPc \in {"dispatch", "pdf_parse", "done"} /\ xExt \notin SupportedExts) =>
        /\ \A d \in DecoderNames : xCalls[d] = 0
        /\ xPc # "pdf_parse"
        /\ xPc = "done" =>
              /\ xResult.state = "rejected"
              /\ xResult.message = <<"Unsupported file type: ">> \o ToLowerCase(ExtName(xPath))

C17_Witness ==
    /\ xPc = "done" /\ xPath = <<"u", "/", "1", ".", "D", "O", "C">>
    /\ xResult.state = "rejected"
    /\ xResult.message = <<"Unsupported file type: ", ".", "d", "o", "c">>

\* C18 (as claimed): a call of extractText that resolves resolves with a
\* non-empty text, never with an empty or undefined one.
C18_NeverEmptySuccess ==
    xResult.state = "resolved" => (xResult.defined /\ xResult.text # << >>)

\* C15: cleanupLocal is idempotent: a call of cleanupLocal after the first
\* one, made when the temp file is gone, throws nothing, calls no unlink,
\* leaves the temp file, the audio file and the pending error as they are,
\* and changes no response.
C15_CleanupIdempotent ==
    [][(/\ calls["cleanupLocal"] >= 1
        /\ calls'["cleanupLocal"] = calls["cleanupLocal"] + 1
        /\ ~tempExists)
       => /\ tempExists' = tempExists
          /\ unlinkFailed' = unlinkFailed
          /\ calls'["unlinkSync"] = calls["unlinkSync"]
          /\ outFile' = outFile
          /\ error' = error /\ primaryError' = primaryError
          /\ response' = response]_vars

C15_Witness ==
    /\ calls["cleanupLocal"] = MaxCleanupCalls /\ calls["unlinkSync"] = 1
    /\ ~tempExists /\ ~unlinkFailed
    /\ Responded /\ Status = 200 /\ Len(response) = 1 /\ outFile.complete

\* C19: two requests served concurrently are independent.  In every state in
\* which the temp file names given out so far differ and the audio names given
\* out so far differ: a request's temp upload is there, with its own content,
\* until its own cleanup; the file it uploaded to the provider is its own
\* upload, whole, under an id of its own, and stays there until its own
\* files.delete; its assistant and its thread are its own, the thread holds
\* its own file, and each stays there until the request's own del; the audio
\* file it wrote holds its own audio; and its response is made of what its
\* own calls returned.
DistinctNames ==
    \A r, q \in Requests :
        r # q =>
            /\ requests[r].path = Null \/ requests[r].path # requests[q].path
            /\ requests[r].outputFilename = << >>
                  \/ requests[r].outputFilename # requests[q].outputFilename

OwnAudio(r) ==
    IF requests[r].variant = "multimodal" THEN Base64Decode(requests[r].returned.audio)
    ELSE requests[r].returned.audio

OwnResponse(r) ==
    LET q == requests[r]
        sent == q.response[1]
    IN  /\ Len(q.response) = 1
        /\ IF q.size > fileSizeLimit THEN sent.status = 500
           ELSE IF ~q.hasFile THEN sent.status = 400
           ELSE IF q.error.raised
           THEN sent = [status |-> 500,
                        body |-> [error |-> IF q.error.message = << >>
                                            THEN <<"Internal Server Error">>
                                            ELSE q.error.message]]
           ELSE sent = [status |-> 200,
                        body |-> [success |-> TRUE,
                                  downloadUrl |-> <<"/downloads/">> \o q.outputFilename,
                                  script |-> q.returned.script]]

C19_RequestsIndependent ==
    DistinctNames =>
        \A r \in Requests :
            LET q == requests[r]
                other == requests[3 - r]
            IN  /\ (q.hasFile /\ ~q.cleaned) => uploadsDir[q.path] = Stored(r, q.size)
                /\ q.uploadedFileId # 0 =>
                      /\ q.forwarded = [bytes |-> q.size, owners |-> {r}]
                      /\ other.uploadedFileId # q.uploadedFileId
                      /\ "file" \notin q.delIssued => providerFiles[q.uploadedFileId] = "stored"
                /\ q.assistantId # 0 =>
                      /\ other.assistantId # q.assistantId
                      /\ "assistant" \notin q.delIssued =>
                            providerAssistants[q.assistantId] = "stored"
                /\ q.threadId # 0 =>
                      /\ other.threadId # q.threadId
                      /\ providerThreads[q.threadId].file \in {0, q.uploadedFileId}
                      /\ "thread" \notin q.delIssued =>
                            providerThreads[q.threadId].state = "stored"
                /\ q.wrote => downloadsDir[q.outputFilename[1]] = Written(OwnAudio(r))
                /\ q.response # << >> => OwnResponse(r)

C19_Witness ==
    /\ DistinctNames
    /\ requests[1].variant = "assistant"
    /\ requests[1].response # << >> /\ requests[1].response[1].status = 200
    /\ requests[2].response # << >> /\ requests[2].response[1].status = 200
    /\ requests[1].response[1].body.script # requests[2].response[1].body.script
    /\ \A u \in Uuids : downloadsDir[u].complete
    /\ downloadsDir["uuid-1"] # downloadsDir["uuid-2"]
    /\ \A n \in TempNames : ~uploadsDir[n].exists
    /\ \A i \in Requests :
          /\ providerFiles[i] = "deleted"
          /\ providerAssistants[i] = "deleted"
          /\ providerThreads[i] = [state |-> "deleted", file |-> requests[i].uploadedFileId]

ForwardCalls ==
    {"filesCreate", "assistantsCreate", "threadsCreate", "messagesCreate", "runsCreate",
     "runsRetrieve", "sleep", "messagesList", "responsesCreate", "speechCreate",
     "arrayBuffer", "writeFile"}

StepsInOrder ==
    /\ (\E c \in ForwardCalls : calls[c] > 0) => (reqFile /\ calls["filesCreate"] = 1)
    /\ (\E c \in ForwardCalls \ {"filesCreate"} : calls[c] > 0) => uploadedFile # Null
    /\ calls["threadsCreate"] > 0 => assistantId # Null
    /\ calls["messagesCreate"] > 0 => threadId # Null
    /\ calls["runsRetrieve"] > 0 => calls["runsCreate"] = 1
    /\ calls["messagesList"] > 0 => runStatus = "completed"
    /\ calls["speechCreate"] > 0 => (upstream.script = "present" /\ script # << >>)
    /\ calls["arrayBuffer"] > 0 => (calls["speechCreate"] = 1 /\ pc # "speech_create")
    /\ calls["writeFile"] > 0 => (upstream.script = "present" /\ upstream.audio # "none")
    /\ (Responded /\ Status = 200) => (calls["writeFile"] = 1 /\ outFile = Written(buffer))

C21_StepOrderFailedAbsorbing ==
    /\ []StepsInOrder
    /\ [][primaryError.raised =>
            /\ \A c \in ForwardCalls : calls'[c] = calls[c]
            /\ primaryError' = primaryError
            /\ response' # response => response'[Len(response')].status = 500]_vars

C21_Witness ==
    /\ variant = "assistant" /\ Responded /\ Status = 500
    /\ calls["speechCreate"] = 1 /\ calls["writeFile"] = 0
    /\ calls["assistantsDel"] >= 1 /\ calls["filesDelete"] = 1 /\ calls["cleanupLocal"] = 1

\* C22: the polling loop terminates.  Whatever statuses the provider returns,
\* the run is retrieved at most maxAttempts + 1 times with at most maxAttempts
\* waits between; the loop is left for the reading of the messages with the
\* run completed, or with the hard status error or the timeout error; and,
\* every call returning, a request that has entered the loop is answered.
C22_PollingTerminates ==
    /\ [](/\ calls["runsRetrieve"] <= maxAttempts + 1
          /\ calls["sleep"] <= maxAttempts
          /\ attempts <= maxAttempts)
    /\ [][(pc = "loop" /\ pc' # "sleep") =>
             \/ pc' = "messages_list" /\ runStatus = "completed" /\ ~primaryError'.raised
             \/ primaryError'.message \in HardErrorMessages \cup {TimeoutMessage}]_vars
    /\ (pc = "loop" ~> Responded)

C22_Witness ==
    /\ calls["runsRetrieve"] = maxAttempts + 1 /\ calls["sleep"] = maxAttempts
    /\ attempts = maxAttempts /\ Responded /\ pc = "done"

\* C23 (as claimed): in the assistant variant a run seen 'completed' by the
\* first retrieve or by any poll up to and including the 120th is never
\* reported as a timeout: once the loop has looked at the status, the
\* handler reads the thread's messages.
C23_CompletedIsNotTimeout ==
    (variant = "assistant" /\ runStatus = "completed" /\ pc # "loop") =>
        /\ primaryError.message # TimeoutMessage
        /\ pc = "messages_list" \/ calls["messagesList"] = 1

\* C24: extractResponsePayload returns as script the trimmed concatenation,
\* in depth-first pre-order, of the texts of the nodes of type 'output_text'
\* or 'text' that have a non-empty text, and as audioBase64 the data of the
\* last node in that order of type 'output_audio' or 'audio' that has data,
\* null when there is none; other nodes count only through their content, and
\* empty outputs give ('', null).
RECURSIVE PreOrder(_)
PreOrder(nodes) ==
    IF nodes = << >> THEN << >>
    ELSE <<Head(nodes)>> \o PreOrder(Head(nodes).content) \o PreOrder(Tail(nodes))

RECURSIVE TextsOf(_)
TextsOf(flat) ==
    IF flat = << >> THEN << >>
    ELSE (IF Head(flat).type \in {"output_text", "text"} THEN Head(flat).text ELSE << >>)
         \o TextsOf(Tail(flat))

LastAudioOf(flat) ==
    LET at == {i \in 1..Len(flat) :
                  flat[i].type \in {"output_audio", "audio"} /\ flat[i].audio # << >>}
    IN  IF at = {} THEN << >>
        ELSE flat[CHOOSE i \in at : \A k \in at : k <= i].audio

C24_PayloadIsPreOrderFold ==
    pPayload.called =>
        /\ pPayload.script = Trim(TextsOf(PreOrder(pOutputs)))
        /\ pPayload.audioBase64 = LastAudioOf(PreOrder(pOutputs))
        /\ pOutputs = << >> => (pPayload.script = << >> /\ pPayload.audioBase64 = << >>)

C24_Witness ==
    /\ pPayload.called
    /\ pOutputs = <<Node("text", <<"b">>, NoAudio,
                         <<Node("audio", << >>, <<17>>, << >>),
                           Node("output_text", <<" ">>, NoAudio, << >>)>>),
                    Node("refusal", <<"a">>, <<0>>, << >>)>>
    /\ pPayload.script = <<"b">> /\ pPayload.audioBase64 = <<17>>

\* C25 (as claimed): in the assistant variant a request that created an
\* assistant has, when it is answered, attempted its deletion exactly once,
\* and likewise for the thread, also when speech synthesis or the audio write
\* failed after the session cleanup of the success path.
C25_SessionDeletedOnce ==
    (variant = "assistant" /\ Responded) =>
        /\ assistantId # Null => calls["assistantsDel"] = 1
        /\ threadId # Null => calls["threadsDel"] = 1

\* C26: extractText hands a path with a supported extension, in whatever
\* case, to the one decoder of that extension and to no other (.pdf to
\* pdf-parse after reading the file, .docx to mammoth, .xlsx and .xls to xlsx,
\* .pptx and .ppt to officeparser, .txt to a plain read), and an error raised
\* on the way rejects the call with that same error, never resolving it.
DecoderOf(ext) ==
    CASE ext = <<".", "p", "d", "f">> -> {"readFileSync", "pdf"}
      [] ext = <<".", "d", "o", "c", "x">> -> {"extractRawText"}
      [] ext \in {<<".", "x", "l", "s", "x">>, <<".", "x", "l", "s">>} -> {"xlsxReadFile", "sheetToTxt"}
      [] ext \in {<<".", "p", "p", "t", "x">>, <<".", "p", "p", "t">>} -> {"parseOffice"}
      [] ext = <<".", "t", "x", "t">> -> {"readFileSync"}
      [] OTHER -> {}

C26_OneDecoderErrorsPropagate ==
    LET ext == ToLowerCase(ExtName(xPath))
    IN  /\ \A d \in DecoderNames \ DecoderOf(ext) : xCalls[d] = 0
        /\ \A d \in DecoderNames \ {"sheetToTxt"} : xCalls[d] <= 1
        /\ (xPc = "done" /\ DecoderOf(ext) # {}) =>
              /\ \E d \in DecoderOf(ext) : xCalls[d] = 1
              /\ ext = <<".", "p", "d", "f">> =>
                    (xCalls["readFileSync"] = 1 /\ (xCalls["pdf"] = 1 \/ xRaised.raised))
        /\ xRaised.raised =>
              (xPc = "done" /\ xResult = Rejected(xRaised.message))
        /\ xResult.state = "rejected" => xRaised.raised

C26_Witness ==
    /\ xPc = "done" /\ xPath = <<"u", "/", "1", ".", "P", "D", "F">>
    /\ xCalls["readFileSync"] = 1 /\ xCalls["pdf"] = 1
    /\ xRaised = Raised(<<"decoder error">>)
    /\ xResult = Rejected(<<"decoder error">>)

\* C27 (as claimed): in the page of part_000 at most one request is in flight
\* at a time: from the click that starts a request until the request has
\* settled and, after an error, its timer has fired, the generate button is
\* never both shown and enabled, whatever is selected, dropped, removed or
\* toggled meanwhile, and no second request starts.
InFlight(k) == flights[k] \in {"fetching", "reading_error", "reading_data", "timer"}

C28_EnabledOnlyWithFile ==
    ~generateBtn.disabled => currentFile # << >>

====
